---- MODULE Spec2Model ----
(***************************************************************************)
(* Print web application: the page-range parser of the PDF processor and   *)
(* the print-job state machine of the HTTP server (POST /api/print,        *)
(* POST /api/print-even), with the bundled frontend client as one of the   *)
(* callers of the resume endpoint.                                         *)
(*                                                                         *)
(* Text is a sequence of one-character strings; a JavaScript number that   *)
(* may be NaN is a sequence of length 0 (NaN) or 1 (the number).           *)
(***************************************************************************)
EXTENDS Integers, Sequences, FiniteSets, TLC

(***************************************************************************)
(* Bounds of the model.                                                    *)
(***************************************************************************)
\* largest number written in a generated range token
MaxNum == 3
\* largest page count of a document handed to the parser
MaxTotal == 3
\* most tokens in a generated range expression
MaxTokens == 2
\* most pages of a source document handed to one PDFProcessor method
MaxPages == 5
\* how often one PDFProcessor call is repeated with the same arguments
MaxCalls == 2

(***************************************************************************)
(* JavaScript string and number primitives used by parsePageRange.         *)
(***************************************************************************)
Digits == <<"0", "1", "2", "3", "4", "5", "6", "7", "8", "9">>

IsDigit(c) == \E d \in 1..10 : Digits[d] = c

DigitVal(c) == (CHOOSE d \in 1..10 : Digits[d] = c) - 1

IsSpace(c) == c = " "

NaN == <<>>

Num(n) == <<n>>

IsNaN(x) == x = NaN

\* a <= b on JavaScript numbers: false as soon as one side is NaN
Lte(a, b) == ~IsNaN(a) /\ ~IsNaN(b) /\ a[1] <= b[1]

\* a >= b on JavaScript numbers
Gte(a, b) == ~IsNaN(a) /\ ~IsNaN(b) /\ a[1] >= b[1]

\* the upper end of a pair taken without the clamp to the page count
MathMinFirst(a, b) == a

\* Math.min(a, b): NaN as soon as one side is NaN
MathMin(a, b) ==
    IF IsNaN(a) \/ IsNaN(b) THEN NaN
    ELSE IF a[1] <= b[1] THEN a ELSE b

RECURSIVE TrimLeft(_)
TrimLeft(s) ==
    IF s # <<>> /\ IsSpace(Head(s)) THEN TrimLeft(Tail(s)) ELSE s

RECURSIVE TrimRight(_)
TrimRight(s) ==
    IF s # <<>> /\ IsSpace(s[Len(s)])
    THEN TrimRight(SubSeq(s, 1, Len(s) - 1))
    ELSE s

\* String.prototype.trim
Trim(s) == TrimRight(TrimLeft(s))

\* String.prototype.includes for a one-character needle
Includes(s, c) == \E k \in 1..Len(s) : s[k] = c

\* String.prototype.split for a one-character separator: "" splits to [""]
RECURSIVE Split(_, _)
Split(s, sep) ==
    IF s = <<>> THEN << <<>> >>
    ELSE LET rest == Split(Tail(s), sep)
         IN  IF Head(s) = sep
             THEN << <<>> >> \o rest
             ELSE << <<Head(s)>> \o Head(rest) >> \o Tail(rest)

\* the longest prefix of s made of digits
RECURSIVE DigitPrefix(_)
DigitPrefix(s) ==
    IF s # <<>> /\ IsDigit(Head(s))
    THEN <<Head(s)>> \o DigitPrefix(Tail(s))
    ELSE <<>>

RECURSIVE DecimalValue(_, _)
DecimalValue(ds, acc) ==
    IF ds = <<>> THEN acc
    ELSE DecimalValue(Tail(ds), acc * 10 + DigitVal(Head(ds)))

\* a parseInt that reads text without a leading number as 0
ParseIntOrZero(s) ==
    LET t == TrimLeft(s)
        neg == t # <<>> /\ Head(t) = "-"
        body == IF neg THEN Tail(t) ELSE t
        ds == DigitPrefix(body)
    IN  IF ds = <<>> THEN Num(0)
        ELSE IF neg THEN Num(0 - DecimalValue(ds, 0))
        ELSE Num(DecimalValue(ds, 0))

\* parseInt(s): leading white space skipped, an optional sign, then the
\* longest run of decimal digits; NaN when there is no digit there
ParseInt(s) ==
    LET t == TrimLeft(s)
        neg == t # <<>> /\ Head(t) = "-"
        body == IF neg THEN Tail(t) ELSE t
        ds == DigitPrefix(body)
    IN  IF ds = <<>> THEN NaN
        ELSE IF neg THEN Num(0 - DecimalValue(ds, 0))
        ELSE Num(DecimalValue(ds, 0))

(***************************************************************************)
(* PDFProcessor.parsePageRange                                             *)
(***************************************************************************)
\* for (let i = start; i <= Math.min(end, totalPages); i++) if (i >= 1) push
RECURSIVE PairLoop(_, _, _)
PairLoop(i, hi, pages) ==
    IF Lte(i, hi)
    THEN PairLoop(Num(i[1] + 1), hi,
                  IF i[1] >= 1 THEN Append(pages, i[1]) ELSE pages)
    ELSE pages

\* the hyphenated branch: [start, end] = part.split('-').map(parseInt)
PairPages(part, totalPages, pages) ==
    LET pieces == Split(part, "-")
        start == ParseInt(Trim(pieces[1]))
        end == ParseInt(Trim(pieces[2]))
    IN  PairLoop(start, MathMin(end, Num(totalPages)), pages)

\* the single-number branch with its lower bound off by one
SinglePagesFromZero(part, totalPages, pages) ==
    LET pageNum == ParseInt(part)
    IN  IF Gte(pageNum, Num(0)) /\ Lte(pageNum, Num(totalPages))
        THEN Append(pages, pageNum[1])
        ELSE pages

\* the single-number branch
SinglePages(part, totalPages, pages) ==
    LET pageNum == ParseInt(part)
    IN  IF Gte(pageNum, Num(1)) /\ Lte(pageNum, Num(totalPages))
        THEN Append(pages, pageNum[1])
        ELSE pages

\* the body of the loop over the parts
PartPages(part, totalPages, pages) ==
    IF Includes(part, "-")
    THEN PairPages(part, totalPages, pages)
    ELSE SinglePages(part, totalPages, pages)

RECURSIVE PartsLoop(_, _, _)
PartsLoop(parts, totalPages, pages) ==
    IF parts = <<>> THEN pages
    ELSE PartsLoop(Tail(parts), totalPages,
                   PartPages(Head(parts), totalPages, pages))

\* [...new Set(pages)]: first occurrences, in insertion order
RECURSIVE Dedupe(_, _)
Dedupe(pages, seen) ==
    IF pages = <<>> THEN seen
    ELSE Dedupe(Tail(pages),
                IF \E k \in 1..Len(seen) : seen[k] = Head(pages)
                THEN seen
                ELSE Append(seen, Head(pages)))

RECURSIVE InsertAsc(_, _)
InsertAsc(x, sorted) ==
    IF sorted = <<>> THEN <<x>>
    ELSE IF x - Head(sorted) < 0 THEN <<x>> \o sorted
    ELSE <<Head(sorted)>> \o InsertAsc(x, Tail(sorted))

\* .sort((a, b) => a - b)
RECURSIVE SortAsc(_)
SortAsc(pages) ==
    IF pages = <<>> THEN <<>>
    ELSE InsertAsc(Head(pages), SortAsc(Tail(pages)))

RECURSIVE MapTrim(_)
MapTrim(parts) ==
    IF parts = <<>> THEN <<>>
    ELSE <<Trim(Head(parts))>> \o MapTrim(Tail(parts))

\* the result left in the order the tokens gave it
NormalizeUnsorted(pages) == Dedupe(pages, <<>>)

NormalizePages(pages) == SortAsc(Dedupe(pages, <<>>))

parsePageRange(range, totalPages) ==
    LET parts == MapTrim(Split(range, ","))
    IN  NormalizePages(PartsLoop(parts, totalPages, <<>>))

(***************************************************************************)
(* PDFProcessor.extractOddEvenPages, createNUpLayout, extractPageRange:    *)
(* the pages each one selects from a document of totalPages pages.  A page *)
(* range is [given, text]: not given when the caller left it undefined.    *)
(***************************************************************************)
NoRange == [given |-> FALSE, text |-> <<>>]

RangeOf(text) == [given |-> TRUE, text |-> text]

\* a test that takes every string, the empty one too, as a range
TruthyGiven(pageRange) == pageRange.given

\* if (pageRange): undefined and the empty string are both falsy
Truthy(pageRange) == pageRange.given /\ pageRange.text # <<>>

RECURSIVE FullRange(_, _)
FullRange(i, totalPages) ==
    IF i > totalPages THEN <<>> ELSE <<i>> \o FullRange(i + 1, totalPages)

pagesToProcess(pageRange, totalPages) ==
    IF Truthy(pageRange)
    THEN parsePageRange(pageRange.text, totalPages)
    ELSE FullRange(1, totalPages)

\* a filter that keeps the odd page numbers whatever the page type
KeepPageOdd(pageNum, pageType) == pageNum % 2 = 1

\* the filter callback of extractOddEvenPages
KeepPage(pageNum, pageType) ==
    IF pageType = "odd" THEN pageNum % 2 = 1 ELSE pageNum % 2 = 0

\* the filter applied to the position in the list instead of the page number
FilterByPosition(pages, pageType) ==
    LET kept == {k \in 1..Len(pages) : KeepPage(k, pageType)}
        Pick[n \in 0..Len(pages)] ==
            IF n = 0 THEN <<>>
            ELSE IF n \in kept THEN Append(Pick[n - 1], pages[n])
            ELSE Pick[n - 1]
    IN  Pick[Len(pages)]

RECURSIVE FilterPages(_, _)
FilterPages(pages, pageType) ==
    IF pages = <<>> THEN <<>>
    ELSE IF KeepPage(Head(pages), pageType)
         THEN <<Head(pages)>> \o FilterPages(Tail(pages), pageType)
         ELSE FilterPages(Tail(pages), pageType)

\* a selection that falls back to the pages it started from when the
\* filter keeps none of them
extractOddEvenPagesOrAll(pageType, pageRange, totalPages) ==
    IF FilterPages(pagesToProcess(pageRange, totalPages), pageType) = <<>>
    THEN pagesToProcess(pageRange, totalPages)
    ELSE FilterPages(pagesToProcess(pageRange, totalPages), pageType)

extractOddEvenPages(pageType, pageRange, totalPages) ==
    FilterPages(pagesToProcess(pageRange, totalPages), pageType)

createNUpLayout(pageRange, totalPages) == pagesToProcess(pageRange, totalPages)

extractPageRange(pageRange, totalPages) ==
    parsePageRange(pageRange.text, totalPages)

\* how often a method with this pageRange argument calls parsePageRange
ParserCalls(pageRange) == IF Truthy(pageRange) THEN 1 ELSE 0

(***************************************************************************)
(* Documents.  A source document is the sequence of its pages; a page is   *)
(* its ordinal in the source and its size in points.  copyPages and        *)
(* embedPdf take 0-based page indices.                                     *)
(***************************************************************************)
SourcePage(no, size) == [no |-> no, width |-> size[1], height |-> size[2]]

\* a page taken at the index as if it counted from 1
PageAtOneBased(src, index) == src[IF index = 0 THEN 1 ELSE index]

\* pdfDoc page at a 0-based index
PageAt(src, index) == src[index + 1]

\* for (const pageNum of pages) { copyPages(pdfDoc, [pageNum - 1]); addPage }
RECURSIVE CopyPages(_, _)
CopyPages(src, pages) ==
    IF pages = <<>> THEN <<>>
    ELSE <<PageAt(src, Head(pages) - 1)>> \o CopyPages(src, Tail(pages))

\* the document extractOddEvenPages saves
OddEvenDocument(src, pageType, pageRange) ==
    CopyPages(src, extractOddEvenPages(pageType, pageRange, Len(src)))

\* the document extractPageRange saves
RangeDocument(src, pageRange) ==
    CopyPages(src, extractPageRange(pageRange, Len(src)))

(***************************************************************************)
(* Numbers of the layout arithmetic: exact fractions n/d with d > 0, in    *)
(* lowest terms.                                                           *)
(***************************************************************************)
Abs(n) == IF n < 0 THEN 0 - n ELSE n

RECURSIVE Gcd(_, _)
Gcd(a, b) == IF b = 0 THEN a ELSE Gcd(b, a % b)

Frac(n, d) ==
    LET g == Gcd(Abs(n), Abs(d))
        sign == IF d < 0 THEN 0 - 1 ELSE 1
    IN  [n |-> (sign * n) \div g, d |-> (sign * d) \div g]

Whole(n) == Frac(n, 1)

\* the least common denominator of two fractions
Lcd(a, b) == (a.d \div Gcd(a.d, b.d)) * b.d

FAdd(a, b) ==
    LET d == Lcd(a, b)
    IN  Frac(a.n * (d \div a.d) + b.n * (d \div b.d), d)

FSub(a, b) ==
    LET d == Lcd(a, b)
    IN  Frac(a.n * (d \div a.d) - b.n * (d \div b.d), d)

\* cancelled crosswise before the products are taken
FMul(a, b) ==
    LET g == Gcd(Abs(a.n), b.d)
        h == Gcd(Abs(b.n), a.d)
    IN  Frac((a.n \div g) * (b.n \div h), (a.d \div h) * (b.d \div g))

FDiv(a, b) == FMul(a, Frac(b.d, b.n))

FLte(a, b) ==
    LET d == Lcd(a, b)
    IN  a.n * (d \div a.d) <= b.n * (d \div b.d)

\* the larger of the two
FMax(a, b) == IF FLte(a, b) THEN b ELSE a

\* Math.min on two numbers
FMin(a, b) == IF FLte(a, b) THEN a ELSE b

(***************************************************************************)
(* PDFProcessor.createNUpLayout: the sheets and what is drawn on them.     *)
(***************************************************************************)
\* the landscape A4 sheet, in points
SheetWidth == 842

SheetHeight == 595

\* four pages on every sheet, whatever the layout
PagesPerSheetFour(layout) == 4

\* const pagesPerSheet = layout === '2-up' ? 2 : 4
PagesPerSheet(layout) == IF layout = "2-up" THEN 2 ELSE 4

Cols(layout) == 2

Rows(layout) == IF layout = "2-up" THEN 1 ELSE 2

CellWidth(layout) == Frac(SheetWidth, Cols(layout))

CellHeight(layout) == Frac(SheetHeight, Rows(layout))

\* the cells of a sheet walked down the columns first
CellColByRows(j, layout) == j \div Rows(layout)

\* const col = j % cols
CellCol(j, layout) == j % Cols(layout)

\* const row = Math.floor(j / cols)
CellRow(j, layout) == j \div Cols(layout)

\* the 95% margin
Margin == Frac(95, 100)

\* the scale that fills the cell in both directions
FillScale(page, layout) ==
    FMul(FMax(FDiv(CellWidth(layout), Whole(page.width)),
              FDiv(CellHeight(layout), Whole(page.height))),
         Margin)

\* Math.min(cellWidth / width, cellHeight / height) * 0.95
FitScale(page, layout) ==
    FMul(FMin(FDiv(CellWidth(layout), Whole(page.width)),
              FDiv(CellHeight(layout), Whole(page.height))),
         Margin)

\* newPage.drawPage(embeddedPage, {x, y, width, height}) for the j-th page of
\* a sheet
DrawPage(page, j, layout) ==
    LET col == CellCol(j, layout)
        row == CellRow(j, layout)
        scale == FitScale(page, layout)
        width == FMul(Whole(page.width), scale)
        height == FMul(Whole(page.height), scale)
    IN  [page |-> page,
         x |-> FAdd(FMul(Whole(col), CellWidth(layout)),
                    FDiv(FSub(CellWidth(layout), width), Whole(2))),
         y |-> FAdd(FSub(Whole(SheetHeight),
                         FMul(Whole(row + 1), CellHeight(layout))),
                    FDiv(FSub(CellHeight(layout), height), Whole(2))),
         width |-> width,
         height |-> height]

\* for (let j = 0; j < pagesPerSheet && i + j < pagesToProcess.length; j++)
RECURSIVE SheetLoop(_, _, _, _, _, _)
SheetLoop(src, pages, i, j, layout, sheet) ==
    IF j < PagesPerSheet(layout) /\ i + j < Len(pages)
    THEN SheetLoop(src, pages, i, j + 1, layout,
                   Append(sheet,
                          DrawPage(PageAt(src, pages[i + j + 1] - 1), j, layout)))
    ELSE sheet

\* for (let i = 0; i < pagesToProcess.length; i += pagesPerSheet)
RECURSIVE SheetsLoop(_, _, _, _, _)
SheetsLoop(src, pages, i, layout, sheets) ==
    IF i < Len(pages)
    THEN SheetsLoop(src, pages, i + PagesPerSheet(layout), layout,
                    Append(sheets, SheetLoop(src, pages, i, 0, layout, <<>>)))
    ELSE sheets

\* the document createNUpLayout saves: its sheets, each the sequence of its
\* drawn pages
NUpDocument(src, layout, pageRange) ==
    SheetsLoop(src, createNUpLayout(pageRange, Len(src)), 0, layout, <<>>)

(***************************************************************************)
(* The server.                                                             *)
(***************************************************************************)
\* most requests (POST /api/print and POST /api/print-even) in one run
MaxReq == 2
\* most requests in one run of the duplex workflow
MaxDuplexReq == 3
\* most requests in one run of the scratch directory's life
MaxStoreReq == 2
\* pages of the readable uploaded document
DocPages == 4
\* most requests in one run of the server over time
MaxSweepReq == 2
\* the last tick of the clock in such a run
MaxClock == 3
\* most requests in one run of the job table's life
MaxJobsReq == 3
\* most requests in one run over the page selections
MaxSelectReq == 2

VARIABLES
    printJobs,   \* the job table: job id -> PrintJob
    statusLog,   \* job id -> the statuses its stored record has held, in order
    reqs,        \* the requests received, each with its handler's position
    spool,       \* what the spooler has accepted, in order
    tempDir,     \* the scratch directory: path -> the document saved there
    timers,      \* the deletions scheduled: the path and the time it is due
    now,         \* the clock Date.now() reads, in milliseconds
    uploads,     \* the names of the files in the upload directory
    handed,      \* the paths printFile has been called with
    sweep,       \* the run of cleanupTempFiles the interval timer started
    ui,          \* the state of the frontend App component
    tokens,      \* parser run: the tokens the expression was written from
    rangeExpr,   \* parser run: the expression
    totalArg,    \* parser run: the page count
    parsed,      \* parser run: the result, once applied
    applied,     \* parser run: whether parsePageRange has been applied
    call,        \* PDFProcessor run: the method called and its arguments
    result       \* PDFProcessor run: what the call produced, once it returned

serverVars == <<printJobs, statusLog, reqs, spool, tempDir, timers, now,
                uploads, handed, sweep, ui>>

parseVars == <<tokens, rangeExpr, totalArg, parsed, applied>>

callVars == <<call, result>>

\* the variables of the runs of one PDFProcessor function on its own
pureVars == <<tokens, rangeExpr, totalArg, parsed, applied, call, result>>

vars == <<printJobs, statusLog, reqs, spool, tempDir, timers, now, uploads,
          handed, sweep, ui,
          tokens, rangeExpr, totalArg, parsed, applied, call, result>>

\* the names a request can carry: "doc" is uploaded as a readable PDF, "note"
\* as a readable PDF of one page, "bad"
\* as a file pdf-lib cannot load, and "gone" was never uploaded
FileNames == {"", "doc", "note", "bad", "gone"}

\* a check that takes every file to be there
pathExistsAlways(filename) == TRUE

\* fs.pathExists(path.join(UPLOAD_DIR, filename))
pathExists(filename) == filename \in uploads

\* a path: the directory, the base name, and for a generated file the
\* operation and the time stamp of its name
NoPath == [dir |-> "", name |-> "", tag |-> "", at |-> 0]

\* path.join(UPLOAD_DIR, filename)
UploadPath(filename) == [dir |-> "uploads", name |-> filename, tag |-> "", at |-> 0]

\* path.join(tempDir, `${basename}-${tag}-${Date.now()}.pdf`)
OutputPath(filename, tag, at) ==
    [dir |-> "temp", name |-> filename, tag |-> tag, at |-> at]

Loadable(filename) == filename \in {"doc", "note"}

getPageCount(filename) == IF filename = "note" THEN 1 ELSE DocPages

Layouts == {"1-up", "2-up", "4-up"}

PageRanges == {NoRange, RangeOf(<<>>), RangeOf(<<"2", "-", "3">>)}

CopiesValues == {0, 1}

Absent == <<>>

NoJob == [id |-> 0, status |-> "none", currentStep |-> "none",
          message |-> "none", totalPages |-> Absent]

Job(id, status, currentStep, message, totalPages) ==
    [id |-> id, status |-> status, currentStep |-> currentStep,
     message |-> message, totalPages |-> totalPages]

MapSet(m, k, v) == (k :> v) @@ m

MapHas(m, k) == k \in DOMAIN m

\* printJobs.get(jobId)
MapGet(m, k) == IF MapHas(m, k) THEN m[k] ELSE NoJob

\* the status sequence of a record after one more printJobs.set
Logged(log, id, status) ==
    LET old == IF MapHas(log, id) THEN log[id] ELSE <<>>
    IN  MapSet(log, id,
               IF old # <<>> /\ old[Len(old)] = status THEN old
               ELSE Append(old, status))

NoDoc == [op |-> "none", range |-> [given |-> FALSE, text |-> <<>>],
          pages |-> <<>>]

\* a request that has just arrived
Request(kind, via, filename, hasSettings, duplex, layout, pageRange, copies,
        jobIdArg) ==
    [kind |-> kind, via |-> via, filename |-> filename,
     hasSettings |-> hasSettings, duplex |-> duplex, layout |-> layout,
     pageRange |-> pageRange, copies |-> copies, jobIdArg |-> jobIdArg,
     pc |-> "start", jobId |-> 0, op |-> "none", processed |-> NoDoc,
     artifact |-> NoPath,
     code |-> 0, body |-> NoJob]

\* res.status(code).json(...) and the return of the handler: its locals are gone
Respond(req, code, body) ==
    [kind |-> req.kind, via |-> req.via, filename |-> "",
     hasSettings |-> FALSE, duplex |-> FALSE, layout |-> "1-up",
     pageRange |-> NoRange, copies |-> 0,
     jobIdArg |-> req.jobIdArg,
     pc |-> "done", jobId |-> req.jobId, op |-> "none", processed |-> NoDoc,
     artifact |-> NoPath,
     code |-> code, body |-> body]

\* a handler that has moved on: the locals no later line reads are dropped
\* (the settings check and the layout are read once; the page range is last
\* read by the PDFProcessor call, copies by the printFile call)
Past(old, req) ==
    [req EXCEPT !.hasSettings = FALSE,
                !.layout = "1-up",
                !.pageRange = IF req.pc \in {"submit", "count"}
                              THEN NoRange ELSE req.pageRange,
                !.copies = IF req.pc = "count" THEN 0 ELSE req.copies]

\* job-${Date.now()}: an id without the random part
NewJobIdByTime(r) == now + 1

\* job-${Date.now()}-${random}: a fresh id per request
NewJobId(r) == r

(***************************************************************************)
(* POST /api/print                                                         *)
(***************************************************************************)
\* the chain with the layout branch tested before the duplex branch
ChooseOpLayoutFirst(duplex, layout, pageRange) ==
    IF layout # "1-up" THEN layout
    ELSE IF duplex THEN "odd"
    ELSE IF Truthy(pageRange) THEN "range"
    ELSE "none"

\* which branch of the if/else-if chain a request takes
ChooseOp(duplex, layout, pageRange) ==
    IF duplex THEN "odd"
    ELSE IF layout # "1-up" THEN layout
    ELSE IF Truthy(pageRange) THEN "range"
    ELSE "none"

\* the document the chosen PDFProcessor call writes
Transform(op, pageRange, totalPages) ==
    [op |-> op,
     range |-> IF Truthy(pageRange) THEN pageRange ELSE NoRange,
     pages |-> CASE op = "odd" -> extractOddEvenPages("odd", pageRange, totalPages)
                 [] op = "even" -> extractOddEvenPages("even", pageRange, totalPages)
                 [] op = "range" -> extractPageRange(pageRange, totalPages)
                 [] OTHER -> createNUpLayout(pageRange, totalPages)]

\* the uploaded file itself, handed over when no branch transforms it
Original(filename) ==
    [op |-> "none", range |-> NoRange,
     pages |-> IF Loadable(filename)
               THEN FullRange(1, getPageCount(filename))
               ELSE <<>>]

\* the record stored before the spooler is called
ProcessingJob(id, op) ==
    Job(id, "processing",
        IF op = "odd" THEN "odd" ELSE "none",
        CASE op = "odd" -> "Printing odd pages..."
          [] op = "range" -> "Extracting page range..."
          [] op = "none" -> "Sending to printer..."
          [] OTHER -> "Creating layout...",
        Absent)

\* a duplex job closed as soon as its odd pages are accepted
AwaitingJobClosed(id, filename) ==
    Job(id, "completed", "none", "Print job submitted successfully", Absent)

\* the awaiting record with the step and the page count of the odd pass
AwaitingJobOddPass(id, filename) ==
    Job(id, "awaiting-even-pages", "odd",
        "Odd pages sent to printer. Please flip the paper and print even pages.",
        Num((getPageCount(filename) + 1) \div 2))

\* the record stored once the spooler has accepted a duplex job's odd pages
AwaitingJob(id, filename) ==
    Job(id, "awaiting-even-pages", "even",
        "Odd pages sent to printer. Please flip the paper and print even pages.",
        Num(getPageCount(filename)))

\* the record stored once the spooler has accepted a one-pass job
CompletedJob(id) ==
    Job(id, "completed", "none", "Print job submitted successfully", Absent)

\* copies || 1
CopiesOrOne(copies) == IF copies = 0 THEN 1 ELSE copies

\* the file is there
FileExists(path) ==
    IF path.dir = "uploads" THEN path.name \in uploads
    ELSE path \in DOMAIN tempDir

\* fs.readFile(filePath) in printFile: what the path holds when it is read
ReadFile(path) ==
    IF path.dir = "uploads" THEN Original(path.name) ELSE tempDir[path]

\* what the spooler receives from printFile; jobId and req tell whose it is
Submission(r, req, even) ==
    [req |-> r,
     jobId |-> IF even THEN req.jobIdArg ELSE req.jobId,
     file |-> req.filename,
     even |-> even,
     path |-> req.artifact,
     doc |-> ReadFile(req.artifact),
     copies |-> CopiesOrOne(req.copies)]

\* the App component after the response to one of its own requests
UiAfter(req, code, body) ==
    IF req.via = "frontend" /\ code = 200
    THEN [ui EXCEPT !.activeJob = body.id, !.activeStatus = body.status]
    ELSE ui

\* the delay of the cleanup timers (60000 ms), in ticks of the clock
RetentionDelay == 1

\* setTimeout(() => fs.remove(path), 60000)
SetTimeout(path) == timers \cup {[path |-> path, due |-> now + RetentionDelay]}

\* the paths with a deletion scheduled
TimerPaths == {t.path : t \in timers}

\* a deletion scheduled whatever the path
ScheduledAlways(req) == SetTimeout(req.artifact)

\* if (processedFilePath !== filePath) setTimeout(() => fs.remove(...), 60000)
Scheduled(req) ==
    IF req.artifact # UploadPath(req.filename)
    THEN SetTimeout(req.artifact)
    ELSE timers

\* the synchronous head of the handler: the field check, then fs.pathExists
PrintArrive(req) ==
    /\ reqs' = Append(reqs,
                      IF req.filename = "" \/ ~req.hasSettings
                      THEN Respond(req, 400, NoJob)
                      ELSE [req EXCEPT !.pc = "exists"])
    /\ UNCHANGED <<printJobs, statusLog, spool, tempDir, timers>>
    /\ UNCHANGED <<now, uploads, handed, sweep>>

ApiPrint(filename, hasSettings, duplex, layout, pageRange, copies) ==
    /\ PrintArrive(Request("print", "api", filename, hasSettings, duplex,
                           layout, pageRange, copies, 0))
    /\ UNCHANGED <<ui>>
    /\ UNCHANGED pureVars

\* fs.pathExists has resolved: 404, or the job id and the branch
PrintExists(r) ==
    LET req == reqs[r]
        id == NewJobId(r)
        op == ChooseOp(req.duplex, req.layout, req.pageRange)
    IN  /\ req.kind = "print" /\ req.pc = "exists"
        /\ IF ~pathExists(req.filename)
           THEN /\ reqs' = [reqs EXCEPT ![r] = Respond(req, 404, NoJob)]
                /\ UNCHANGED <<printJobs, statusLog>>
           ELSE IF op = "none"
           THEN /\ reqs' = [reqs EXCEPT ![r] =
                               Past(req, [req EXCEPT !.jobId = id, !.op = op,
                                           !.processed = Original(req.filename),
                                           !.artifact = UploadPath(req.filename),
                                           !.pc = "submit"])]
                /\ printJobs' = MapSet(printJobs, id, ProcessingJob(id, op))
                /\ statusLog' = Logged(statusLog, id, ProcessingJob(id, op).status)
           ELSE /\ reqs' = [reqs EXCEPT ![r] =
                               Past(req, [req EXCEPT !.jobId = id, !.op = op,
                                           !.pc = "extract"])]
                /\ UNCHANGED <<printJobs, statusLog>>
        /\ UNCHANGED <<spool, tempDir, timers, ui>>
        /\ UNCHANGED <<now, uploads, handed, sweep>>
        /\ UNCHANGED pureVars

\* the PDFProcessor call has settled: the catch block, or the artifact,
\* saved under the time stamp at that Date.now() gave, and the first record
\* of the job
PrintExtract(r, at) ==
    LET req == reqs[r]
        doc == Transform(req.op, req.pageRange, getPageCount(req.filename))
        path == OutputPath(req.filename, req.op, at)
    IN  /\ req.kind = "print" /\ req.pc = "extract"
        /\ at >= now
        /\ IF ~Loadable(req.filename)
           THEN /\ reqs' = [reqs EXCEPT ![r] = Respond(req, 500, NoJob)]
                /\ ui' = UiAfter(req, 500, NoJob)
                /\ UNCHANGED <<printJobs, statusLog, tempDir, now>>
           ELSE /\ reqs' = [reqs EXCEPT ![r] =
                               Past(req, [req EXCEPT !.processed = doc,
                                                     !.artifact = path,
                                                     !.pc = "submit"])]
                /\ now' = at
                /\ tempDir' = MapSet(tempDir, path, doc)
                /\ printJobs' = MapSet(printJobs, req.jobId,
                                       ProcessingJob(req.jobId, req.op))
                /\ statusLog' = Logged(statusLog, req.jobId,
                                       ProcessingJob(req.jobId, req.op).status)
                /\ UNCHANGED <<ui>>
        /\ UNCHANGED <<spool, timers, uploads, handed, sweep>>
        /\ UNCHANGED pureVars

\* cupsClient.printFile has read the file and the spooler has answered: the
\* catch block; or, accepted, the wait for getPageCount (duplex) or the
\* completed record and the response.  While the file is missing the read
\* does not come back and the handler stays where it is.
PrintSubmit(r, accepted) ==
    LET req == reqs[r]
        done == CompletedJob(req.jobId)
    IN  /\ req.kind = "print" /\ req.pc = "submit"
        /\ FileExists(req.artifact)
        /\ handed' = handed \cup {req.artifact}
        /\ IF ~accepted
           THEN /\ reqs' = [reqs EXCEPT ![r] = Respond(req, 500, NoJob)]
                /\ ui' = UiAfter(req, 500, NoJob)
                /\ UNCHANGED <<printJobs, statusLog, spool, timers>>
           ELSE IF req.duplex
           THEN /\ reqs' = [reqs EXCEPT ![r] = Past(req, [req EXCEPT !.pc = "count"])]
                /\ spool' = Append(spool, Submission(r, req, FALSE))
                /\ UNCHANGED <<printJobs, statusLog, timers, ui>>
           ELSE /\ spool' = Append(spool, Submission(r, req, FALSE))
                /\ printJobs' = MapSet(printJobs, req.jobId, done)
                /\ statusLog' = Logged(statusLog, req.jobId, done.status)
                /\ reqs' = [reqs EXCEPT ![r] =
                               Respond(req, 200, MapGet(printJobs', req.jobId))]
                /\ ui' = UiAfter(req, 200, MapGet(printJobs', req.jobId))
                /\ timers' = Scheduled(req)
        /\ UNCHANGED <<tempDir, now, uploads, sweep>>
        /\ UNCHANGED pureVars

\* getPageCount has resolved: the awaiting record and the response
PrintCount(r) ==
    LET req == reqs[r]
        waiting == AwaitingJob(req.jobId, req.filename)
    IN  /\ req.kind = "print" /\ req.pc = "count"
        /\ printJobs' = MapSet(printJobs, req.jobId, waiting)
        /\ statusLog' = Logged(statusLog, req.jobId, waiting.status)
        /\ reqs' = [reqs EXCEPT ![r] =
                       Respond(req, 200, MapGet(printJobs', req.jobId))]
        /\ ui' = UiAfter(req, 200, MapGet(printJobs', req.jobId))
        /\ timers' = Scheduled(req)
        /\ UNCHANGED <<spool, tempDir>>
        /\ UNCHANGED <<now, uploads, handed, sweep>>
        /\ UNCHANGED pureVars

(***************************************************************************)
(* POST /api/print-even                                                    *)
(***************************************************************************)
\* the job check without the test of the status
ResumeAllowedAnyStatus(jobs, jobId) == MapHas(jobs, jobId)

\* const job = printJobs.get(jobId); !job || job.status !== 'awaiting-even-pages'
ResumeAllowed(jobs, jobId) ==
    MapHas(jobs, jobId) /\ jobs[jobId].status = "awaiting-even-pages"

\* the record stored once the spooler has accepted the even pages
ResumedJob(id) ==
    Job(id, "completed", "none", "Duplex printing completed", Absent)

\* an even pass that is dropped when the job's even pages are already queued
SpoolEvenOnce(queue, r, req) ==
    IF \E k \in 1..Len(queue) : queue[k].even /\ queue[k].jobId = req.jobIdArg
    THEN queue
    ELSE Append(queue, Submission(r, req, TRUE))

\* what printFile adds to the spooler's queue for the even pass
SpoolEven(queue, r, req) == Append(queue, Submission(r, req, TRUE))

\* the synchronous head of the handler: the field check, the job check, then
\* fs.pathExists
EvenArrive(req) ==
    /\ reqs' = Append(reqs,
                      IF req.jobIdArg = 0 \/ req.filename = ""
                      THEN Respond(req, 400, NoJob)
                      ELSE IF ~ResumeAllowed(printJobs, req.jobIdArg)
                      THEN Respond(req, 400, NoJob)
                      ELSE [req EXCEPT !.pc = "exists"])
    /\ UNCHANGED <<printJobs, statusLog, spool, tempDir, timers>>
    /\ UNCHANGED <<now, uploads, handed, sweep>>

ApiPrintEven(jobIdArg, filename, pageRange, copies) ==
    /\ EvenArrive(Request("even", "api", filename, FALSE, FALSE, "1-up",
                          pageRange, copies, jobIdArg))
    /\ UNCHANGED <<ui>>
    /\ UNCHANGED pureVars

\* fs.pathExists has resolved
EvenExists(r) ==
    LET req == reqs[r]
    IN  /\ req.kind = "even" /\ req.pc = "exists"
        /\ reqs' = [reqs EXCEPT ![r] =
                       IF ~pathExists(req.filename)
                       THEN Respond(req, 404, NoJob)
                       ELSE [req EXCEPT !.op = "even", !.pc = "extract"]]
        /\ UNCHANGED <<printJobs, statusLog, spool, tempDir, timers, ui>>
        /\ UNCHANGED <<now, uploads, handed, sweep>>
        /\ UNCHANGED pureVars

\* extractOddEvenPages(filePath, 'even', pageRange) has settled
EvenExtract(r, at) ==
    LET req == reqs[r]
        doc == Transform("even", req.pageRange, getPageCount(req.filename))
        path == OutputPath(req.filename, "even", at)
    IN  /\ req.kind = "even" /\ req.pc = "extract"
        /\ at >= now
        /\ IF ~Loadable(req.filename)
           THEN /\ reqs' = [reqs EXCEPT ![r] = Respond(req, 500, NoJob)]
                /\ UNCHANGED <<tempDir, now>>
           ELSE /\ reqs' = [reqs EXCEPT ![r] =
                               Past(req, [req EXCEPT !.processed = doc,
                                                     !.artifact = path,
                                                     !.pc = "submit"])]
                /\ now' = at
                /\ tempDir' = MapSet(tempDir, path, doc)
        /\ UNCHANGED <<printJobs, statusLog, spool, timers, ui>>
        /\ UNCHANGED <<uploads, handed, sweep>>
        /\ UNCHANGED pureVars

\* cupsClient.printFile has settled: the catch block; or the completed
\* record, the response and the cleanup timer
EvenSubmit(r, accepted) ==
    LET req == reqs[r]
        done == ResumedJob(req.jobIdArg)
    IN  /\ req.kind = "even" /\ req.pc = "submit"
        /\ FileExists(req.artifact)
        /\ handed' = handed \cup {req.artifact}
        /\ IF ~accepted
           THEN /\ reqs' = [reqs EXCEPT ![r] = Respond(req, 500, NoJob)]
                /\ UNCHANGED <<printJobs, statusLog, spool, timers, ui>>
           ELSE /\ spool' = SpoolEven(spool, r, req)
                /\ printJobs' = MapSet(printJobs, req.jobIdArg, done)
                /\ statusLog' = Logged(statusLog, req.jobIdArg, done.status)
                /\ reqs' = [reqs EXCEPT ![r] =
                               Respond(req, 200, MapGet(printJobs', req.jobIdArg))]
                /\ ui' = UiAfter(req, 200, MapGet(printJobs', req.jobIdArg))
                /\ timers' = SetTimeout(req.artifact)
        /\ UNCHANGED <<tempDir, now, uploads, sweep>>
        /\ UNCHANGED pureVars

\* no run of cleanupTempFiles is under way
NoSweep == [pc |-> "idle", files |-> <<>>, started |-> 0]

\* fs.remove(path) in the scratch directory
RemoveFile(files, path) == [q \in DOMAIN files \ {path} |-> files[q]]

\* the callback of a cleanup timer runs: fs.remove(processedFilePath)
TimerFire(timer) ==
    /\ timer \in timers
    /\ timers' = timers \ {timer}
    /\ IF timer.path.dir = "uploads"
       THEN /\ uploads' = uploads \ {timer.path.name}
            /\ UNCHANGED <<tempDir>>
       ELSE /\ tempDir' = RemoveFile(tempDir, timer.path)
            /\ UNCHANGED <<uploads>>
    /\ UNCHANGED <<printJobs, statusLog, reqs, spool, now, handed, sweep, ui>>
    /\ UNCHANGED pureVars

\* the clock moves on by one tick
Tick ==
    /\ now < MaxClock
    /\ now' = now + 1
    /\ UNCHANGED <<printJobs, statusLog, reqs, spool, tempDir, timers,
                   uploads, handed, sweep, ui>>
    /\ UNCHANGED pureVars

\* a cleanup timer fires once its delay has passed
TimerDue(timer) ==
    /\ now >= timer.due
    /\ TimerFire(timer)

(***************************************************************************)
(* GET /api/status/:jobId                                                  *)
(***************************************************************************)
\* a handler that does not find the records of completed jobs
StatusCodeOpen(jobs, jobId) ==
    IF MapHas(jobs, jobId) /\ jobs[jobId].status # "completed"
    THEN 200 ELSE 404

\* if (!job) return res.status(404)...; res.json(job)
StatusCode(jobs, jobId) == IF MapHas(jobs, jobId) THEN 200 ELSE 404

\* the whole handler: printJobs.get, then 404 or the record
ApiStatus(jobId) ==
    /\ reqs' = Append(reqs,
                      Respond(Request("status", "api", "", FALSE, FALSE, "1-up",
                                      NoRange, 0, jobId),
                              StatusCode(printJobs, jobId),
                              MapGet(printJobs, jobId)))
    /\ UNCHANGED <<printJobs, statusLog, spool, tempDir, timers, ui>>
    /\ UNCHANGED <<now, uploads, handed, sweep>>
    /\ UNCHANGED pureVars

(***************************************************************************)
(* The periodic sweep: setInterval and PDFProcessor.cleanupTempFiles.      *)
(***************************************************************************)
\* parseInt(process.env.TEMP_FILE_CLEANUP || '3600000'), in ticks of the clock
maxAge == 2

\* stats.mtimeMs: a generated file is written in the millisecond its name
\* carries
MTime(path) == path.at

\* the orders fs.readdir can list a set of files in
Listings(files) ==
    {l \in [1..Cardinality(files) -> files] :
        \A i, j \in 1..Cardinality(files) : i # j => l[i] # l[j]}

\* the interval timer fires: fs.readdir(this.tempDir) and now = Date.now().
\* One run at a time: the interval is far longer than a run.
SweepStart ==
    /\ sweep.pc = "idle"
    /\ DOMAIN tempDir # {}
    /\ \E files \in Listings(DOMAIN tempDir) :
           sweep' = [pc |-> "loop", files |-> files, started |-> now]
    /\ UNCHANGED <<printJobs, statusLog, reqs, spool, tempDir, timers, now,
                   uploads, handed, ui>>
    /\ UNCHANGED pureVars

\* one turn of the loop: fs.stat(filePath), which rejects when the file is
\* gone and ends the run in the .catch of the interval callback; otherwise
\* fs.remove(filePath) when now - stats.mtimeMs > maxAge.  The run ends
\* after the last file.
SweepFile ==
    LET path == Head(sweep.files)
        rest == Tail(sweep.files)
    IN  /\ sweep.pc = "loop"
        /\ IF path \notin DOMAIN tempDir
           THEN /\ sweep' = NoSweep
                /\ UNCHANGED <<tempDir>>
           ELSE /\ sweep' = IF rest = <<>> THEN NoSweep
                            ELSE [sweep EXCEPT !.files = rest]
                /\ tempDir' = IF sweep.started - MTime(path) > maxAge
                              THEN RemoveFile(tempDir, path)
                              ELSE tempDir
        /\ UNCHANGED <<printJobs, statusLog, reqs, spool, timers, now,
                       uploads, handed, ui>>
        /\ UNCHANGED pureVars

(***************************************************************************)
(* The frontend, once a document has been uploaded: App.handlePrint and    *)
(* App.handlePrintEven.                                                    *)
(***************************************************************************)
\* handlePrint: submitPrintJob(file.filename, selectedPrinter, settings); the
\* settings of the form always carry a pageRange string and copies >= 1
UiPrint(duplex, layout, pageRange, copies) ==
    /\ ui.file # ""
    /\ ui.activeStatus # "awaiting-even-pages"
    /\ pageRange.given
    /\ copies >= 1
    /\ PrintArrive(Request("print", "frontend", ui.file, TRUE, duplex, layout,
                           pageRange, copies, 0))
    /\ ui' = [ui EXCEPT !.copies = copies]
    /\ UNCHANGED pureVars

\* handlePrintEven: printEvenPages(activeJob.id, file.filename,
\* selectedPrinter, settings.copies); no pageRange is passed on
UiPrintEven ==
    /\ ui.file # ""
    /\ ui.activeJob # 0
    /\ ui.activeStatus = "awaiting-even-pages"
    /\ EvenArrive(Request("even", "frontend", ui.file, FALSE, FALSE, "1-up",
                          NoRange, ui.copies, ui.activeJob))
    /\ UNCHANGED <<ui>>
    /\ UNCHANGED pureVars

(***************************************************************************)
(* The server and its callers.                                             *)
(***************************************************************************)
EmptyMap == [k \in {} |-> NoJob]

NoParse ==
    /\ tokens = <<>>
    /\ rangeExpr = <<>>
    /\ totalArg = 0
    /\ parsed = <<>>
    /\ applied = TRUE

ServerInit ==
    /\ printJobs = EmptyMap
    /\ statusLog = EmptyMap
    /\ reqs = <<>>
    /\ spool = <<>>
    /\ tempDir = EmptyMap
    /\ timers = {}
    /\ now = 0
    /\ uploads = {"doc", "note", "bad"}
    /\ handed = {}
    /\ sweep = NoSweep
    /\ ui = [file |-> "doc", copies |-> 1, activeJob |-> 0, activeStatus |-> "none"]

\* no PDFProcessor method is run on its own
NoCall ==
    /\ call = [fn |-> "none"]
    /\ result = <<>>

Init == ServerInit /\ NoParse /\ NoCall

\* the bodies sent to POST /api/print: every setting on the readable document;
\* the other file names and a body without settings, where no setting is read
\* before the handler answers or fails
ApiPrintInputs ==
    [filename : {"doc"}, hasSettings : {TRUE}, duplex : BOOLEAN,
     layout : Layouts, pageRange : PageRanges, copies : {0}]
    \cup [filename : {"", "gone", "bad"}, hasSettings : {TRUE},
          duplex : BOOLEAN, layout : {"1-up"}, pageRange : {NoRange},
          copies : {0}]
    \cup [filename : {"doc"}, hasSettings : {FALSE}, duplex : {FALSE},
          layout : {"1-up"}, pageRange : {NoRange}, copies : {0}]

\* the bodies sent to POST /api/print-even, next to the job id
ApiEvenInputs ==
    [filename : {"doc"}, pageRange : PageRanges, copies : {0}]
    \cup [filename : {"", "gone", "bad"}, pageRange : {NoRange}, copies : {0}]

\* the settings of the form when Print is clicked, the layout left as it is
FormInputs ==
    [duplex : BOOLEAN, layout : {"1-up"}, pageRange : PageRanges \ {NoRange},
     copies : CopiesValues \ {0}]

Arrival ==
    \/ /\ Len(reqs) < MaxReq
       /\ \E in \in ApiPrintInputs :
              ApiPrint(in.filename, in.hasSettings, in.duplex, in.layout,
                       in.pageRange, in.copies)
    \/ /\ Len(reqs) < MaxReq
       /\ \E jobIdArg \in 0..(Len(reqs) + 1), in \in ApiEvenInputs :
              ApiPrintEven(jobIdArg, in.filename, in.pageRange, in.copies)
    \/ /\ Len(reqs) < MaxReq
       /\ \E in \in FormInputs :
              UiPrint(in.duplex, in.layout, in.pageRange, in.copies)
    \/ /\ Len(reqs) < MaxReq
       /\ UiPrintEven

\* the handlers' continuations, in any order; the clock has moved on by the
\* time an artifact is named, and no deletion comes due: the requests are
\* more than a millisecond and less than the retention delay apart
Progress ==
    \/ \E r \in 1..Len(reqs) : PrintExists(r)
    \/ \E r \in 1..Len(reqs) : PrintExtract(r, now + 1)
    \/ \E r \in 1..Len(reqs), accepted \in BOOLEAN : PrintSubmit(r, accepted)
    \/ \E r \in 1..Len(reqs) : PrintCount(r)
    \/ \E r \in 1..Len(reqs) : EvenExists(r)
    \/ \E r \in 1..Len(reqs) : EvenExtract(r, now + 1)
    \/ \E r \in 1..Len(reqs), accepted \in BOOLEAN : EvenSubmit(r, accepted)

Next ==
    \/ Arrival
    \/ Progress

Spec == Init /\ [][Next]_vars

\* the duplex workflow alone: duplex submissions of the readable document and
\* the resume calls that follow them
DuplexPrintInputs ==
    [filename : {"doc"}, hasSettings : {TRUE}, duplex : {TRUE},
     layout : {"1-up"}, pageRange : {NoRange, RangeOf(<<"2", "-", "3">>)},
     copies : {0}]

DuplexEvenInputs ==
    [filename : {"doc"}, pageRange : {NoRange, RangeOf(<<"2", "-", "3">>)},
     copies : {0}]

DuplexArrival ==
    \/ /\ Len(reqs) < MaxDuplexReq
       /\ \E in \in DuplexPrintInputs :
              ApiPrint(in.filename, in.hasSettings, in.duplex, in.layout,
                       in.pageRange, in.copies)
    \/ /\ Len(reqs) < MaxDuplexReq
       /\ \E jobIdArg \in 1..Len(reqs), in \in DuplexEvenInputs :
              ApiPrintEven(jobIdArg, in.filename, in.pageRange, in.copies)

NextDuplex ==
    \/ DuplexArrival
    \/ Progress

SpecDuplex == Init /\ [][NextDuplex]_vars

(***************************************************************************)
(* The life of the scratch directory: submissions of the readable document *)
(* and resumes, at any pace: two artifacts can be named within the same    *)
(* millisecond, and the scheduled deletions come due.                      *)
(***************************************************************************)
StorePrintInputs ==
    [filename : {"doc"}, hasSettings : {TRUE}, duplex : BOOLEAN,
     layout : {"1-up", "2-up"},
     pageRange : {NoRange, RangeOf(<<"1">>), RangeOf(<<"2", "-", "3">>)},
     copies : {0}]

StoreEvenInputs ==
    [filename : {"doc"}, pageRange : {NoRange}, copies : {0}]

StoreArrival ==
    \/ /\ Len(reqs) < MaxStoreReq
       /\ \E in \in StorePrintInputs :
              ApiPrint(in.filename, in.hasSettings, in.duplex, in.layout,
                       in.pageRange, in.copies)
    \/ /\ Len(reqs) < MaxStoreReq
       /\ \E jobIdArg \in 1..Len(reqs), in \in StoreEvenInputs :
              ApiPrintEven(jobIdArg, in.filename, in.pageRange, in.copies)

\* what Date.now() can give when an artifact is named: the millisecond of
\* the last artifact still, or a later one
Times == {now, now + 1}

StoreProgress ==
    \/ \E r \in 1..Len(reqs) : PrintExists(r)
    \/ \E r \in 1..Len(reqs), at \in Times : PrintExtract(r, at)
    \/ \E r \in 1..Len(reqs), accepted \in BOOLEAN : PrintSubmit(r, accepted)
    \/ \E r \in 1..Len(reqs) : PrintCount(r)
    \/ \E r \in 1..Len(reqs) : EvenExists(r)
    \/ \E r \in 1..Len(reqs), at \in Times : EvenExtract(r, at)
    \/ \E r \in 1..Len(reqs), accepted \in BOOLEAN : EvenSubmit(r, accepted)
    \/ \E timer \in timers : TimerFire(timer)

NextStore ==
    \/ StoreArrival
    \/ StoreProgress

SpecStore == Init /\ [][NextStore]_vars

(***************************************************************************)
(* The server over time: submissions and resumes, the clock, the cleanup   *)
(* timers firing once their delay has passed, and the periodic sweep.  A   *)
(* handler can take any time between two of its awaits.  The copies value  *)
(* of a request is absent or zero (0), negative, or positive.              *)
(***************************************************************************)
SweepCopies == {0 - 1, 0, 2}

SweepPrintInputs ==
    [filename : {"doc"}, hasSettings : {TRUE}, duplex : {TRUE},
     layout : {"1-up"}, pageRange : {NoRange}, copies : SweepCopies]
    \cup [filename : {"doc"}, hasSettings : {TRUE}, duplex : {FALSE},
          layout : {"2-up"}, pageRange : {NoRange}, copies : SweepCopies]

SweepEvenInputs ==
    [filename : {"doc"}, pageRange : {NoRange}, copies : SweepCopies]

SweepArrival ==
    \/ /\ Len(reqs) < MaxSweepReq
       /\ \E in \in SweepPrintInputs :
              ApiPrint(in.filename, in.hasSettings, in.duplex, in.layout,
                       in.pageRange, in.copies)
    \/ /\ Len(reqs) < MaxSweepReq
       /\ \E jobIdArg \in 1..Len(reqs), in \in SweepEvenInputs :
              ApiPrintEven(jobIdArg, in.filename, in.pageRange, in.copies)

\* the handlers' continuations; an artifact is named in the current tick
SweepProgress ==
    \/ \E r \in 1..Len(reqs) : PrintExists(r)
    \/ \E r \in 1..Len(reqs) : PrintExtract(r, now)
    \/ \E r \in 1..Len(reqs), accepted \in BOOLEAN : PrintSubmit(r, accepted)
    \/ \E r \in 1..Len(reqs) : PrintCount(r)
    \/ \E r \in 1..Len(reqs) : EvenExists(r)
    \/ \E r \in 1..Len(reqs) : EvenExtract(r, now)
    \/ \E r \in 1..Len(reqs), accepted \in BOOLEAN : EvenSubmit(r, accepted)

Clockwork ==
    \/ Tick
    \/ \E timer \in timers : TimerDue(timer)
    \/ SweepStart
    \/ SweepFile

NextSweep ==
    \/ SweepArrival
    \/ SweepProgress
    \/ Clockwork

SpecSweep == Init /\ [][NextSweep]_vars

(***************************************************************************)
(* The life of the job table: submissions, resumes and status queries in   *)
(* any interleaving, next to the cleanup timers and the sweep.  A resume   *)
(* names the readable document or the file pdf-lib cannot load.            *)
(***************************************************************************)
JobsPrintInputs ==
    [filename : {"doc"}, hasSettings : {TRUE}, duplex : {TRUE},
     layout : {"1-up"}, pageRange : {NoRange}, copies : {0}]
    \cup [filename : {"doc"}, hasSettings : {TRUE}, duplex : {FALSE},
          layout : {"2-up"}, pageRange : {NoRange}, copies : {0}]

JobsEvenInputs ==
    [filename : {"doc", "bad"}, pageRange : {NoRange}, copies : {0}]

JobsArrival ==
    \/ /\ Len(reqs) < MaxJobsReq
       /\ \E in \in JobsPrintInputs :
              ApiPrint(in.filename, in.hasSettings, in.duplex, in.layout,
                       in.pageRange, in.copies)
    \/ /\ Len(reqs) < MaxJobsReq
       /\ \E jobIdArg \in 1..Len(reqs), in \in JobsEvenInputs :
              ApiPrintEven(jobIdArg, in.filename, in.pageRange, in.copies)
    \/ /\ Len(reqs) < MaxJobsReq
       /\ \E jobId \in 1..MaxJobsReq : ApiStatus(jobId)

JobsCleanup ==
    \/ \E timer \in timers : TimerFire(timer)
    \/ SweepStart
    \/ SweepFile

NextJobs ==
    \/ JobsArrival
    \/ Progress
    \/ JobsCleanup

SpecJobs == Init /\ [][NextJobs]_vars

(***************************************************************************)
(* The page selections: submissions and resumes of either readable         *)
(* document, with no range, with a range of even pages only ("2"), of the  *)
(* first page only ("1"), and with a range beyond the last page ("9").     *)
(***************************************************************************)
SelectRanges == {NoRange, RangeOf(<<"2">>), RangeOf(<<"9">>)}

SelectPrintInputs ==
    [filename : {"doc", "note"}, hasSettings : {TRUE}, duplex : {TRUE},
     layout : {"1-up"}, pageRange : SelectRanges, copies : {0}]
    \cup [filename : {"doc"}, hasSettings : {TRUE}, duplex : {FALSE},
          layout : {"1-up", "2-up"}, pageRange : SelectRanges \ {NoRange},
          copies : {0}]

SelectEvenInputs ==
    [filename : {"doc", "note"}, pageRange : {NoRange, RangeOf(<<"1">>)},
     copies : {0}]

SelectArrival ==
    \/ /\ Len(reqs) < MaxSelectReq
       /\ \E in \in SelectPrintInputs :
              ApiPrint(in.filename, in.hasSettings, in.duplex, in.layout,
                       in.pageRange, in.copies)
    \/ /\ Len(reqs) < MaxSelectReq
       /\ \E jobIdArg \in 1..Len(reqs), in \in SelectEvenInputs :
              ApiPrintEven(jobIdArg, in.filename, in.pageRange, in.copies)

NextSelect ==
    \/ SelectArrival
    \/ Progress

SpecSelect == Init /\ [][NextSelect]_vars

(***************************************************************************)
(* Runs of parsePageRange alone.  A range expression is written out from   *)
(* tokens (a number, a start-end pair, or other text), joined by commas,   *)
(* and handed to the parser as text.                                       *)
(***************************************************************************)
RECURSIVE Decimal(_)
Decimal(n) ==
    IF n < 10 THEN <<Digits[n + 1]>>
    ELSE Decimal(n \div 10) \o <<Digits[(n % 10) + 1]>>

\* the text of an integer
Fmt(n) == IF n < 0 THEN <<"-">> \o Decimal(0 - n) ELSE Decimal(n)

SingleToken(v) == [kind |-> "single", a |-> v, b |-> v, text |-> Fmt(v)]

PairToken(start, end) ==
    [kind |-> "pair", a |-> start, b |-> end,
     text |-> Fmt(start) \o <<"-">> \o Fmt(end)]

OtherToken(text) == [kind |-> "other", a |-> 0, b |-> 0, text |-> text]

SingleTokens == {SingleToken(v) : v \in (0 - 1)..MaxNum}

PairTokens == {PairToken(start, end) : start \in 0..MaxNum, end \in 0..MaxNum}

OtherTokens ==
    {OtherToken(text) : text \in
        { <<>>, <<"a">>, <<"2", "-">>, <<"a", "-", "2">>, <<"2", "-", "a">>,
          <<"2", "a">>, <<" ", "2", " ">>, <<"1", " ", "-", " ", "2">>,
          <<"1", "-", "2", "-", "3">> }}

Tokens == SingleTokens \cup PairTokens \cup OtherTokens

RECURSIVE TokenLists(_)
TokenLists(n) ==
    IF n = 0 THEN { <<>> }
    ELSE LET shorter == TokenLists(n - 1)
         IN  shorter \cup
             {Append(list, token) : list \in {l \in shorter : Len(l) = n - 1},
                                    token \in Tokens}

\* the tokens written out, a comma between two of them
RECURSIVE Join(_)
Join(list) ==
    IF list = <<>> THEN <<>>
    ELSE IF Len(list) = 1 THEN list[1].text
    ELSE list[1].text \o <<",">> \o Join(Tail(list))

\* the runs the documentation of the parser gives as examples
ExampleRuns ==
    { << <<PairToken(1, 5), SingleToken(8), PairToken(11, 13)>>, 20 >>,
      << <<PairToken(3, 1)>>, 10 >>,
      << <<SingleToken(0), SingleToken(5), SingleToken(100)>>, 10 >> }

ParseRuns ==
    ((TokenLists(MaxTokens) \ { <<>> }) \X (0..MaxTotal)) \cup ExampleRuns

ParseInit ==
    /\ ServerInit
    /\ \E run \in ParseRuns :
          /\ tokens = run[1]
          /\ rangeExpr = Join(run[1])
          /\ totalArg = run[2]
    /\ parsed = <<>>
    /\ applied = FALSE
    /\ NoCall

\* pagesToProcess = this.parsePageRange(pageRange, totalPages)
ApplyParse ==
    /\ ~applied
    /\ parsed' = parsePageRange(rangeExpr, totalArg)
    /\ applied' = TRUE
    /\ UNCHANGED <<tokens, rangeExpr, totalArg>>
    /\ UNCHANGED callVars
    /\ UNCHANGED serverVars

ParseNext == ApplyParse

SpecParse == ParseInit /\ [][ParseNext]_vars

(***************************************************************************)
(* Runs of one PDFProcessor method on its own: extractOddEvenPages,        *)
(* createNUpLayout or extractPageRange on a source document.               *)
(***************************************************************************)
\* portrait A4, landscape A4, a small square and a wide strip
PageSizes == { <<595, 842>>, <<842, 595>>, <<200, 200>>, <<1000, 50>> }

Uniform(n, size) == [k \in 1..n |-> SourcePage(k, size)]

\* portrait and landscape pages in turn
Mixed(n) ==
    [k \in 1..n |->
        SourcePage(k, IF k % 2 = 1 THEN <<595, 842>> ELSE <<842, 595>>)]

Sources ==
    {Uniform(n, size) : n \in 0..MaxPages, size \in PageSizes}
    \cup {Mixed(n) : n \in 0..MaxPages}

\* the ten-page document of the documented selections
TenPages == Uniform(10, <<595, 842>>)

ComposeRanges ==
    { NoRange, RangeOf(<<>>), RangeOf(<<"2", "-", "3">>),
      RangeOf(<<"2", "-", "4">>), RangeOf(<<"2", "-", "6">>),
      RangeOf(<<"3", ",", "1">>), RangeOf(<<"a">>) }

OddEvenRuns ==
    [fn : {"extractOddEvenPages"}, src : Sources \cup {TenPages},
     pageType : {"odd", "even"}, pageRange : ComposeRanges]

NUpRuns ==
    [fn : {"createNUpLayout"}, src : Sources, layout : {"2-up", "4-up"},
     pageRange : ComposeRanges]

RangeRuns ==
    [fn : {"extractPageRange"}, src : Sources,
     pageRange : ComposeRanges \ {NoRange}]

ComposeRuns == OddEvenRuns \cup NUpRuns \cup RangeRuns

ComposeInit ==
    /\ ServerInit
    /\ NoParse
    /\ call \in ComposeRuns
    /\ result = <<>>

\* the ordinals of the pages drawn on the sheets, in drawing order
RECURSIVE DrawnPages(_)
DrawnPages(sheets) ==
    IF sheets = <<>> THEN <<>>
    ELSE [k \in 1..Len(Head(sheets)) |-> Head(sheets)[k].page.no]
         \o DrawnPages(Tail(sheets))

\* the method has saved a document: fs.writeFile(outputPath, newPdfBytes) and
\* return outputPath
Saved(tag, at, pages, parserCalls, doc) ==
    LET path == OutputPath("doc", tag, at)
    IN  /\ Len(result) < MaxCalls
        /\ at >= now
        /\ now' = at
        /\ tempDir' = MapSet(tempDir, path, doc)
        /\ result' = Append(result, [pages |-> pages,
                                      parserCalls |-> parserCalls,
                                      doc |-> doc,
                                      path |-> path])
        /\ UNCHANGED <<call>>
        /\ UNCHANGED parseVars
        /\ UNCHANGED <<printJobs, statusLog, reqs, spool, timers, uploads,
                       handed, sweep, ui>>

ApplyOddEven(at) ==
    /\ call.fn = "extractOddEvenPages"
    /\ Saved(call.pageType, at,
             extractOddEvenPages(call.pageType, call.pageRange, Len(call.src)),
             ParserCalls(call.pageRange),
             OddEvenDocument(call.src, call.pageType, call.pageRange))

ApplyNUp(at) ==
    /\ call.fn = "createNUpLayout"
    /\ LET sheets == NUpDocument(call.src, call.layout, call.pageRange)
       IN  Saved(call.layout, at, DrawnPages(sheets),
                 ParserCalls(call.pageRange), sheets)

ApplyRange(at) ==
    /\ call.fn = "extractPageRange"
    /\ Saved("range", at,
             extractPageRange(call.pageRange, Len(call.src)),
             1,
             RangeDocument(call.src, call.pageRange))

ComposeNext ==
    \/ \E at \in Times : ApplyOddEven(at)
    \/ \E at \in Times : ApplyNUp(at)
    \/ \E at \in Times : ApplyRange(at)

SpecCompose == ComposeInit /\ [][ComposeNext]_vars

(***************************************************************************)
(* Properties of parsePageRange, checked under SpecParse.                  *)
(***************************************************************************)
SeqRange(seq) == {seq[k] : k \in 1..Len(seq)}

StrictlyAscending(seq) == \A k \in 1..(Len(seq) - 1) : seq[k] < seq[k + 1]

\* the ascending sequence of the members of a set of integers
RECURSIVE Ascending(_)
Ascending(set) ==
    IF set = {} THEN <<>>
    ELSE LET least == CHOOSE x \in set : \A y \in set : x <= y
         IN  <<least>> \o Ascending(set \ {least})

\* the pages a pair or singleton token stands for in a document of total pages
Stands(token, total) ==
    IF token.kind = "pair"
    THEN {i \in 1..total : token.a <= i /\ i <= token.b}
    ELSE {i \in 1..total : i = token.a}

StandsAll(list, total) == UNION {Stands(list[k], total) : k \in 1..Len(list)}

OnlyKinds(list, kinds) == \A k \in 1..Len(list) : list[k].kind \in kinds

\* C8: whatever the expression (singleton, pair and malformed tokens in any
\* order, overlapping or not) and whatever totalPages >= 0, the result of
\* parsePageRange is strictly ascending, hence free of duplicates, and each of
\* its elements lies in 1..totalPages.
C8_AscendingBounded ==
    applied =>
        /\ StrictlyAscending(parsed)
        /\ \A k \in 1..Len(parsed) : 1 <= parsed[k] /\ parsed[k] <= totalArg

\* a pair and a singleton inside it, in descending order, have been parsed
C8_Witness ==
    /\ applied
    /\ Len(tokens) >= 2
    /\ tokens[1] = PairToken(2, 3)
    /\ tokens[2] = SingleToken(2)
    /\ totalArg = 3
    /\ parsed = <<2, 3>>

\* C9: a pair token start-end contributes exactly the integers i with
\* max(start, 1) <= i <= min(end, totalPages): an expression made of pair
\* tokens parses to the ascending union of those intervals, a pair with
\* start > end gives nothing ("3-1" of 10 pages is empty), and
\* "1-5,8,11-13" of 20 pages is 1,2,3,4,5,8,11,12,13.
C9_PairContribution ==
    applied =>
        /\ OnlyKinds(tokens, {"pair"}) =>
               parsed = Ascending(StandsAll(tokens, totalArg))
        /\ (tokens = <<PairToken(3, 1)>> /\ totalArg = 10) => parsed = <<>>
        /\ (rangeExpr = <<"1", "-", "5", ",", "8", ",", "1", "1", "-", "1", "3">>
            /\ totalArg = 20)
             => parsed = <<1, 2, 3, 4, 5, 8, 11, 12, 13>>

\* a pair reaching below page 1 and above the last page has been clamped
C9_Witness ==
    /\ applied
    /\ tokens = <<PairToken(0, 3)>>
    /\ totalArg = 2
    /\ parsed = <<1, 2>>

\* C10: a singleton token contributes its value v exactly when
\* 1 <= v <= totalPages; 0, negative values and values above totalPages are
\* dropped and leave the other tokens' pages as they are ("0,5,100" of 10
\* pages is 5).
C10_SingleContribution ==
    applied =>
        /\ (OnlyKinds(tokens, {"single", "pair"})
            /\ \E k \in 1..Len(tokens) : tokens[k].kind = "single")
             => parsed = Ascending(StandsAll(tokens, totalArg))
        /\ (rangeExpr = <<"0", ",", "5", ",", "1", "0", "0">> /\ totalArg = 10)
             => parsed = <<5>>

\* a dropped singleton next to a pair that keeps its pages
C10_Witness ==
    /\ applied
    /\ tokens = <<SingleToken(0), PairToken(1, 2)>>
    /\ totalArg = 3
    /\ parsed = <<1, 2>>

\* the texts no integer can be read from: the empty token, a word, and pairs
\* whose start or end is a word or missing
UnparsedTexts ==
    { <<>>, <<"a">>, <<"2", "-">>, <<"a", "-", "2">>, <<"2", "-", "a">> }

\* a token parseInt reads no integer from, on its own or as start or end of a
\* pair; "-1" is a pair whose start is missing
IsUnparsed(token) ==
    \/ token.kind = "other" /\ token.text \in UnparsedTexts
    \/ token.kind = "single" /\ token.a < 0

RemoveAt(list, k) == SubSeq(list, 1, k - 1) \o SubSeq(list, k + 1, Len(list))

\* C11: parsePageRange gives a result for every expression, and a token no
\* integer can be read from (a word, an empty token, a pair whose start or
\* end is a word or is missing: "a-2", "2-", "-1") contributes no page: the
\* result is the one of the expression with that token taken out, and an
\* expression of well-formed and such tokens parses to the pages of its
\* well-formed tokens alone.
C11_MalformedDropped ==
    applied =>
        /\ \A k \in 1..Len(tokens) :
               IsUnparsed(tokens[k]) =>
                   parsed = parsePageRange(Join(RemoveAt(tokens, k)), totalArg)
        /\ (\A k \in 1..Len(tokens) :
                tokens[k].kind \in {"single", "pair"} \/ IsUnparsed(tokens[k]))
             => parsed = Ascending(StandsAll(tokens, totalArg))

\* a pair with a word for its start, next to a pair that keeps its pages
C11_Witness ==
    /\ applied
    /\ tokens = <<OtherToken(<<"a", "-", "2">>), PairToken(2, 3)>>
    /\ totalArg = 3
    /\ parsed = <<2, 3>>

(***************************************************************************)
(* Properties of the PDFProcessor methods, checked under SpecCompose.      *)
(***************************************************************************)
\* the call has returned
Returned == result # <<>>

\* a range expression was supplied: a string, and not the empty one
Supplied(pageRange) == pageRange.given /\ pageRange.text # <<>>

\* the pages a selection starts from
BasePages(pageRange, total) ==
    IF Supplied(pageRange)
    THEN SeqRange(parsePageRange(pageRange.text, total))
    ELSE 1..total

Parity(pageType) == IF pageType = "odd" THEN 1 ELSE 0

\* C12: the parity filter comes after the range restriction and looks at the
\* page number, not at the position: the odd (even) selection is the
\* ascending sequence of the odd (even) members of the parsed range, or of
\* 1..total without a range; of 10 pages, odd without a range is 1,3,5,7,9
\* and odd of "2-6" is 3,5; odd of "2-4" is 3.
C12_ParityAfterRange ==
    (Returned /\ call.fn = "extractOddEvenPages") =>
        LET total == Len(call.src)
            pages == result[1].pages
        IN  /\ pages = Ascending({p \in BasePages(call.pageRange, total) :
                                      p % 2 = Parity(call.pageType)})
            /\ (total = 10 /\ call.pageType = "odd" /\ call.pageRange = NoRange)
                 => pages = <<1, 3, 5, 7, 9>>
            /\ (total = 10 /\ call.pageType = "odd"
                /\ call.pageRange = RangeOf(<<"2", "-", "6">>))
                 => pages = <<3, 5>>
            /\ (total >= 4 /\ call.pageType = "odd"
                /\ call.pageRange = RangeOf(<<"2", "-", "4">>))
                 => pages = <<3>>

\* the odd pages of "2-4" have been selected from a five-page document
C12_Witness ==
    /\ Returned
    /\ call.fn = "extractOddEvenPages"
    /\ call.pageType = "odd"
    /\ call.pageRange = RangeOf(<<"2", "-", "4">>)
    /\ Len(call.src) = 5
    /\ result[1].pages = <<3>>

\* C13: without a range expression (none, or the empty string the form
\* sends by default) the odd/even extraction and the N-up composition work
\* on exactly 1..totalPages, and parsePageRange is called only when an
\* expression is supplied.
C13_FullRangeDefault ==
    (Returned /\ call.fn \in {"extractOddEvenPages", "createNUpLayout"}) =>
        LET total == Len(call.src)
            pages == result[1].pages
        IN  /\ ~Supplied(call.pageRange) =>
                  /\ result[1].parserCalls = 0
                  /\ call.fn = "createNUpLayout" => pages = Ascending(1..total)
                  /\ call.fn = "extractOddEvenPages" =>
                         pages = Ascending({p \in 1..total :
                                               p % 2 = Parity(call.pageType)})
            /\ result[1].parserCalls > 0 => Supplied(call.pageRange)

\* the N-up composition of a five-page document with the empty string for
\* its range has drawn all five pages
C13_Witness ==
    /\ Returned
    /\ call.fn = "createNUpLayout"
    /\ call.pageRange = RangeOf(<<>>)
    /\ Len(call.src) = 5
    /\ result[1].pages = <<1, 2, 3, 4, 5>>
    /\ result[1].parserCalls = 0

\* C14: the document an extraction saves has as many pages as indices were
\* selected, its k-th page the source page at the k-th index, whole (its
\* content and its size); so the same extraction run again on the same
\* source saves the same pages, in a file of its own whenever the clock has
\* moved on in between.
C14_SameContent ==
    (Returned /\ call.fn \in {"extractPageRange", "extractOddEvenPages"}) =>
        /\ \A i \in 1..Len(result) :
               LET out == result[i]
               IN  /\ Len(out.doc) = Len(out.pages)
                   /\ \A k \in 1..Len(out.pages) :
                          out.doc[k] = call.src[out.pages[k]]
                   /\ out.path \in DOMAIN tempDir
                   /\ tempDir[out.path] = out.doc
        /\ \A i \in 1..Len(result), j \in 1..Len(result) :
               /\ result[i].doc = result[j].doc
               /\ result[i].path.at # result[j].path.at
                    => result[i].path # result[j].path

\* pages 2 and 4 of the ten-page document have been extracted twice, into
\* two files
C14_Witness ==
    /\ Len(result) = 2
    /\ call.fn = "extractOddEvenPages"
    /\ call.src = TenPages
    /\ result[1].pages = <<2, 4>>
    /\ result[1].path # result[2].path
    /\ tempDir[result[1].path] = <<TenPages[2], TenPages[4]>>
    /\ tempDir[result[2].path] = <<TenPages[2], TenPages[4]>>

\* the pages an N-up composition is given, in order
Selected(pageRange, total) == Ascending(BasePages(pageRange, total))

\* cells per sheet of a layout
Cells(layout) == IF layout = "2-up" THEN 2 ELSE 4

\* the least number of sheets of c cells that take n pages
CeilDiv(n, c) == (n + c - 1) \div c

\* C15: an N-up composition of n selected pages with c cells per sheet
\* (2 or 4) has exactly ceil(n/c) sheets, none for n = 0; every sheet but the
\* last has c populated cells and the last has n - c*(ceil(n/c) - 1), its
\* other cells left blank; 5 pages 4-up are 2 sheets, the second with one
\* populated cell.
C15_SheetCount ==
    (Returned /\ call.fn = "createNUpLayout") =>
        LET n == Len(Selected(call.pageRange, Len(call.src)))
            c == Cells(call.layout)
            sheets == result[1].doc
        IN  /\ Len(sheets) = CeilDiv(n, c)
            /\ \A k \in 1..(Len(sheets) - 1) : Len(sheets[k]) = c
            /\ Len(sheets) > 0 =>
                   /\ Len(sheets[Len(sheets)]) = n - c * (CeilDiv(n, c) - 1)
                   /\ Len(sheets[Len(sheets)]) \in 1..c
            /\ (n = 5 /\ c = 4) => Len(sheets) = 2 /\ Len(sheets[2]) = 1

\* five pages have been composed 4-up: a full sheet and a sheet with one page
C15_Witness ==
    /\ Returned
    /\ call.fn = "createNUpLayout"
    /\ call.layout = "4-up"
    /\ call.pageRange = NoRange
    /\ Len(call.src) = 5
    /\ Len(result[1].doc) = 2
    /\ Len(result[1].doc[1]) = 4
    /\ Len(result[1].doc[2]) = 1

\* the grid of a layout: 1 row x 2 columns, or 2 rows x 2 columns
GridCols(layout) == 2

GridRows(layout) == IF layout = "2-up" THEN 1 ELSE 2

\* the cell in column col and row row of the grid, row 0 the top band
CellBox(layout, col, row) ==
    LET w == Frac(842, GridCols(layout))
        h == Frac(595, GridRows(layout))
    IN  [left |-> FMul(Whole(col), w),
         right |-> FMul(Whole(col + 1), w),
         bottom |-> FSub(Whole(595), FMul(Whole(row + 1), h)),
         top |-> FSub(Whole(595), FMul(Whole(row), h))]

\* the drawn rectangle lies in the box
Inside(d, box) ==
    /\ FLte(box.left, d.x)
    /\ FLte(FAdd(d.x, d.width), box.right)
    /\ FLte(box.bottom, d.y)
    /\ FLte(FAdd(d.y, d.height), box.top)

\* how often the page with this ordinal is drawn on the sheets
TimesDrawn(sheets, no) ==
    Cardinality({<<i, j>> \in (1..Len(sheets)) \X (1..4) :
                    j <= Len(sheets[i]) /\ sheets[i][j].page.no = no})

\* C16: the k-th selected page (from 0) is drawn exactly once, on sheet
\* k div c, in the cell of column (k mod c) mod cols and row (k mod c) div
\* cols of the grid (2-up: 1 x 2, 4-up: 2 x 2); no two pages of a sheet
\* share a cell, and row 0 is the top band, the lower edge of its cells at
\* sheetHeight - cellHeight.
C16_CellOfPage ==
    (Returned /\ call.fn = "createNUpLayout") =>
        LET selected == Selected(call.pageRange, Len(call.src))
            c == Cells(call.layout)
            cols == GridCols(call.layout)
            sheets == result[1].doc
        IN  \A k \in 0..(Len(selected) - 1) :
                LET d == sheets[(k \div c) + 1][(k % c) + 1]
                    box == CellBox(call.layout, (k % c) % cols, (k % c) \div cols)
                IN  /\ d.page = call.src[selected[k + 1]]
                    /\ TimesDrawn(sheets, selected[k + 1]) = 1
                    /\ Inside(d, box)
                    /\ (k % c) \div cols = 0 =>
                           /\ box.top = Whole(595)
                           /\ box.bottom =
                                  FSub(Whole(595),
                                       Frac(595, GridRows(call.layout)))
                    /\ \A m \in 0..(Len(selected) - 1) :
                           (m # k /\ m \div c = k \div c) =>
                               CellBox(call.layout, (m % c) % cols,
                                       (m % c) \div cols) # box

\* the second page of a 4-up sheet stands in the top band, right column
C16_Witness ==
    /\ Returned
    /\ call.fn = "createNUpLayout"
    /\ call.layout = "4-up"
    /\ call.pageRange = NoRange
    /\ Len(call.src) = 5
    /\ Inside(result[1].doc[1][2], CellBox("4-up", 1, 0))
    /\ Inside(result[1].doc[1][3], CellBox("4-up", 0, 1))
    /\ Inside(result[1].doc[2][1], CellBox("4-up", 0, 0))

\* the cell a drawn page stands in, by its position on the sheet
BoxOf(layout, j) ==
    CellBox(layout, (j - 1) % GridCols(layout), (j - 1) \div GridCols(layout))

\* C17: for every source page of positive width and height, the rectangle
\* drawn for it lies inside its cell, keeps the aspect ratio of the page
\* (one scale, min(cellWidth/width, cellHeight/height) x 0.95, for both
\* directions) and is centred: equal margins left and right, and below and
\* above, within the cell.
C17_FitsCentred ==
    (Returned /\ call.fn = "createNUpLayout") =>
        LET sheets == result[1].doc
        IN  \A i \in 1..Len(sheets) : \A j \in 1..Len(sheets[i]) :
                LET d == sheets[i][j]
                    box == BoxOf(call.layout, j)
                    cellW == FSub(box.right, box.left)
                    cellH == FSub(box.top, box.bottom)
                    byWidth == FDiv(cellW, Whole(d.page.width))
                    byHeight == FDiv(cellH, Whole(d.page.height))
                    scale == FMul(IF FLte(byWidth, byHeight)
                                  THEN byWidth ELSE byHeight,
                                  Frac(19, 20))
                IN  /\ d.page.width > 0 /\ d.page.height > 0
                    /\ Inside(d, box)
                    /\ d.width = FMul(Whole(d.page.width), scale)
                    /\ d.height = FMul(Whole(d.page.height), scale)
                    /\ FMul(d.width, Whole(d.page.height))
                         = FMul(d.height, Whole(d.page.width))
                    /\ FSub(d.x, box.left)
                         = FSub(box.right, FAdd(d.x, d.width))
                    /\ FSub(d.y, box.bottom)
                         = FSub(box.top, FAdd(d.y, d.height))

\* a portrait and a landscape page have been drawn side by side on a 2-up
\* sheet, the portrait page limited by the height of the cell and the
\* landscape page by its width
C17_Witness ==
    /\ Returned
    /\ call.fn = "createNUpLayout"
    /\ call.layout = "2-up"
    /\ call.src = Mixed(2)
    /\ call.pageRange = NoRange
    /\ result[1].doc[1][1].height = Frac(595 * 19, 20)
    /\ result[1].doc[1][2].width = Frac(421 * 19, 20)

(***************************************************************************)
(* Properties of the print-job state machine.                              *)
(***************************************************************************)
ReqIds == 1..Len(reqs)

SpoolIds == 1..Len(spool)

\* the spooler holds the odd pages of job j
OddAccepted(j) ==
    \E k \in SpoolIds :
        spool[k].jobId = j /\ ~spool[k].even /\ spool[k].doc.op = "odd"

IsDuplexJob(j) == printJobs[j].currentStep # "none" \/ OddAccepted(j)

\* a resume of job j has been answered with success
Resumed(j) ==
    \E r \in ReqIds :
        reqs[r].kind = "even" /\ reqs[r].jobIdArg = j /\ reqs[r].code = 200

\* the POST /print that created job j has been answered with success
Answered(j) ==
    \E r \in ReqIds :
        reqs[r].kind = "print" /\ reqs[r].jobId = j /\ reqs[r].code = 200

\* C1 as stated: the record of a duplex job that waits for its even pages
\* has held pending, then processing, then awaiting-even-pages.
C1_PendingFirst ==
    \A j \in DOMAIN printJobs :
        printJobs[j].status = "awaiting-even-pages" =>
            statusLog[j] = <<"pending", "processing", "awaiting-even-pages">>

\* C1, amended: the record of a duplex job is first stored as processing (no
\* record is stored as pending), holds awaiting-even-pages once POST /print
\* has answered, and completed once a resumeEven on its id has answered with
\* success; it holds no other status in between.
C1_DuplexStatuses ==
    \A j \in DOMAIN printJobs :
        /\ statusLog[j][1] = "processing"
        /\ IsDuplexJob(j) =>
               statusLog[j] \in
                   { <<"processing">>,
                     <<"processing", "awaiting-even-pages">>,
                     <<"processing", "awaiting-even-pages", "completed">> }
        /\ (IsDuplexJob(j) /\ Answered(j)) => Len(statusLog[j]) >= 2
        /\ Resumed(j) =>
               /\ printJobs[j].status = "completed"
               /\ statusLog[j] =
                      <<"processing", "awaiting-even-pages", "completed">>

\* a duplex job has been submitted and resumed
C1_Witness ==
    \E j \in DOMAIN printJobs :
        /\ Resumed(j)
        /\ OddAccepted(j)
        /\ statusLog[j] = <<"processing", "awaiting-even-pages", "completed">>

\* C2: a resumeEven whose job id is not in the job table, or whose job is in
\* another status than awaiting-even-pages, is answered with an error in the
\* step it arrives in, which leaves the job table, the spooler's queue and the
\* scratch directory as they were; nothing from it ever reaches the spooler.
C2_RejectedResume ==
    /\ [][ (/\ Len(reqs') = Len(reqs) + 1
            /\ reqs'[Len(reqs')].kind = "even"
            /\ \/ reqs'[Len(reqs')].jobIdArg \notin DOMAIN printJobs
               \/ printJobs[reqs'[Len(reqs')].jobIdArg].status
                      # "awaiting-even-pages")
           => (/\ reqs'[Len(reqs')].pc = "done"
               /\ reqs'[Len(reqs')].code = 400
               /\ printJobs' = printJobs
               /\ statusLog' = statusLog
               /\ spool' = spool
               /\ tempDir' = tempDir) ]_vars
    /\ [](\A k \in SpoolIds : reqs[spool[k].req].code # 400)

\* a resume of a job that is already completed has been rejected
C2_Witness ==
    \E r \in ReqIds :
        /\ reqs[r].kind = "even"
        /\ reqs[r].code = 400
        /\ reqs[r].jobIdArg \in DOMAIN printJobs
        /\ printJobs[reqs[r].jobIdArg].status = "completed"

\* the transformation the settings ask for, by the documented precedence
Precedence(duplex, layout, pageRange) ==
    CASE duplex -> "odd"
      [] ~duplex /\ layout # "1-up" -> layout
      [] ~duplex /\ layout = "1-up" /\ pageRange.given /\ pageRange.text # <<>>
           -> "range"
      [] OTHER -> "none"

\* the pages the transformation keeps, from the pages the range stands for
PrecedencePages(op, pageRange, total) ==
    LET base == IF pageRange.given /\ pageRange.text # <<>>
                THEN SeqRange(parsePageRange(pageRange.text, total))
                ELSE 1..total
    IN  IF op = "odd" THEN Ascending({i \in base : i % 2 = 1})
        ELSE Ascending(base)

\* C3: POST /print chooses exactly one transformation, by precedence: duplex
\* selects the odd pages (of the range, when one is supplied) whatever the
\* layout; otherwise a layout other than 1-up selects the N-up composition;
\* otherwise a supplied range selects the range extraction; otherwise the
\* original goes out unmodified.  What the spooler receives is the one
\* document so chosen.
C3_Precedence ==
    [][ \A r \in ReqIds :
          reqs[r].kind = "print" =>
            /\ (reqs[r].pc = "exists" /\ reqs'[r].pc \in {"extract", "submit"})
                 => /\ reqs'[r].op = Precedence(reqs[r].duplex, reqs[r].layout,
                                                reqs[r].pageRange)
                    /\ reqs'[r].pc = "submit"
                         => /\ reqs'[r].op = "none"
                            /\ Loadable(reqs[r].filename)
                                 => reqs'[r].processed.pages =
                                        Ascending(1..DocPages)
                            /\ reqs'[r].artifact = UploadPath(reqs[r].filename)
            /\ (reqs[r].pc = "extract" /\ reqs'[r].pc = "submit")
                 => /\ reqs'[r].processed.op = reqs[r].op
                    /\ reqs'[r].processed.pages =
                           PrecedencePages(reqs[r].op, reqs[r].pageRange,
                                           getPageCount(reqs[r].filename))
            /\ (reqs[r].pc = "submit" /\ reqs'[r].pc # "submit"
                /\ reqs'[r].code # 500)
                 => /\ Len(spool') = Len(spool) + 1
                    /\ spool'[Len(spool')].req = r
                    /\ spool'[Len(spool')].doc = reqs[r].processed ]_vars

\* the odd pages of a supplied range have reached the spooler
C3_Witness ==
    \E k \in SpoolIds :
        /\ spool[k].doc.op = "odd"
        /\ spool[k].doc.range = RangeOf(<<"2", "-", "3">>)
        /\ spool[k].doc.pages = <<3>>

\* C4: when POST /print answers with success, the stored job is, for duplex,
\* awaiting-even-pages with currentStep even and totalPages the page count of
\* the original document, and for every other case completed; the response
\* carries that stored record.
C4_StoredAfterPrint ==
    [][ \A r \in ReqIds :
          (reqs[r].kind = "print" /\ reqs[r].code = 0 /\ reqs'[r].code = 200)
            => /\ reqs[r].jobId \in DOMAIN printJobs'
               /\ reqs'[r].body = printJobs'[reqs[r].jobId]
               /\ reqs[r].duplex
                    => /\ printJobs'[reqs[r].jobId].status = "awaiting-even-pages"
                       /\ printJobs'[reqs[r].jobId].currentStep = "even"
                       /\ printJobs'[reqs[r].jobId].totalPages = <<DocPages>>
               /\ ~reqs[r].duplex
                    => printJobs'[reqs[r].jobId].status = "completed" ]_vars

\* a duplex submission has been answered with the awaiting record
C4_Witness ==
    \E r \in ReqIds :
        /\ reqs[r].kind = "print"
        /\ reqs[r].code = 200
        /\ reqs[r].body.status = "awaiting-even-pages"
        /\ reqs[r].body.totalPages = <<DocPages>>
        /\ OddAccepted(reqs[r].jobId)

\* C5: the even pass of a duplex job selects its pages from the page range
\* its odd pass used, also when the frontend issues the resume.
C5_SameRange ==
    \A k \in SpoolIds, m \in SpoolIds :
        (/\ spool[k].even
         /\ ~spool[m].even
         /\ spool[m].doc.op = "odd"
         /\ spool[k].jobId = spool[m].jobId)
          => /\ spool[k].doc.range = spool[m].doc.range
             /\ spool[k].doc.pages =
                    extractOddEvenPages("even", spool[m].doc.range, DocPages)

\* C6: a POST /print that has answered with a server-side failure after its
\* job record was stored has left that record failed, not processing.
C6_FailedMarked ==
    \A r \in ReqIds :
        (/\ reqs[r].kind = "print"
         /\ reqs[r].pc = "done"
         /\ reqs[r].code = 500
         /\ reqs[r].jobId \in DOMAIN printJobs)
          => printJobs[reqs[r].jobId].status = "failed"

\* the even passes of job j in the spooler's queue
EvenPasses(j) == {k \in SpoolIds : spool[k].even /\ spool[k].jobId = j}

\* the resumes of job j answered with success
ResumesDone(j) ==
    {r \in ReqIds : reqs[r].kind = "even" /\ reqs[r].jobIdArg = j
                    /\ reqs[r].code = 200}

\* C7: the check of a resume and its write of completed are not atomic: every
\* resume that saw awaiting-even-pages and whose spooler call succeeded has
\* put its own even pass in the queue, whether or not another resume of the
\* same job did so meanwhile, so one job can have more than one even pass.
C7_ResumeNotAtomic ==
    \A j \in DOMAIN printJobs :
        /\ Cardinality(EvenPasses(j)) = Cardinality(ResumesDone(j))
        /\ \A r \in ResumesDone(j) : \E k \in EvenPasses(j) : spool[k].req = r

\* two overlapping resumes of one job have both submitted its even pages
C7_Witness ==
    \E j \in DOMAIN printJobs :
        /\ Cardinality(EvenPasses(j)) >= 2
        /\ Cardinality(ResumesDone(j)) >= 2

(***************************************************************************)
(* Properties of the scratch directory and the cleanup timers, checked     *)
(* under SpecStore.                                                        *)
(***************************************************************************)
\* the paths of the scratch directory printFile was called with whose file
\* is gone again
Removed == {p \in handed : p.dir = "temp" /\ p \notin DOMAIN tempDir}

\* C18: the cleanup timer never deletes the uploaded original: a deletion
\* is scheduled only for a path that differs from the upload path, so after
\* any sequence of submissions and resumes, and of deletions coming due,
\* every upload is still there.
C18_UploadKept ==
    /\ \A p \in TimerPaths : p.dir = "temp"
    /\ uploads = {"doc", "note", "bad"}

\* the original has gone to the spooler unmodified, the deletion of a
\* generated file has come due, and the original is still there
C18_Witness ==
    /\ \E k \in SpoolIds : spool[k].path = UploadPath("doc")
    /\ Removed # {}
    /\ "doc" \in uploads

\* a handler that has not answered yet holds the path
InFlight(path) ==
    \E r \in ReqIds : reqs[r].pc # "done" /\ reqs[r].artifact = path

\* C19: every generated file printFile was called with has, once its
\* handler is through, a deletion scheduled or behind it, on every path of
\* POST /print and POST /print-even on which the spooler was called with it.
C19_DeletionScheduled ==
    \A p \in handed :
        p.dir = "temp" =>
            \/ InFlight(p)
            \/ p \in TimerPaths
            \/ p \notin DOMAIN tempDir

\* C20: two PDFProcessor calls of concurrent requests on the same source
\* never write to the same path: two handlers that hold a generated file
\* hold different paths, and each finds in its file the document it saved.
C20_DistinctPaths ==
    \A r \in ReqIds :
        reqs[r].artifact.dir = "temp" =>
            /\ \A q \in ReqIds :
                   (q # r /\ reqs[q].artifact.dir = "temp")
                     => reqs[q].artifact # reqs[r].artifact
            /\ FileExists(reqs[r].artifact)
                 => ReadFile(reqs[r].artifact) = reqs[r].processed

(***************************************************************************)
(* Properties of the periodic sweep, checked under SpecSweep.              *)
(***************************************************************************)
\* the age the running sweep computes for a file: now - stats.mtimeMs
SweepAge(path) == sweep.started - MTime(path)

\* C21: each sweep deletes every file of the scratch directory whose age
\* exceeds the threshold and no file whose age does not, also when a timer
\* removes a file while the sweep is running: a turn of the loop removes
\* only files older than the threshold, and when a run ends no file older
\* than the threshold is left.
C21_SweepComplete ==
    [][ /\ (sweep.pc = "loop" /\ sweep' # sweep)
             => \A p \in DOMAIN tempDir \ DOMAIN tempDir' :
                    SweepAge(p) > maxAge
        /\ (sweep.pc = "loop" /\ sweep'.pc = "idle")
             => \A p \in DOMAIN tempDir' : SweepAge(p) <= maxAge ]_vars

(***************************************************************************)
(* Properties of the job table, checked under SpecJobs.                    *)
(***************************************************************************)
\* the requests that take a step: the one that arrives, or the one whose
\* handler moves on
Stepping == {r \in 1..Len(reqs') : r > Len(reqs) \/ reqs'[r] # reqs[r]}

\* the job id a request works on, once it has one: the id POST /print made
\* up, or the jobId of the body of POST /print-even
JobIdOf(req) == IF req.kind = "print" THEN req.jobId ELSE req.jobIdArg

\* C22: concurrent jobs are independent: two submissions never work on the
\* same job id, and every step of POST /print or POST /print-even for one
\* job id leaves the record of every other job id as it was, in every
\* interleaving of the handlers.
C22_Independent ==
    /\ [](\A r \in ReqIds, q \in ReqIds :
             (/\ r # q
              /\ reqs[r].kind = "print" /\ reqs[q].kind = "print"
              /\ reqs[r].jobId # 0)
               => reqs[r].jobId # reqs[q].jobId)
    /\ [][ \A r \in Stepping :
             reqs'[r].kind \in {"print", "even"}
               => \A b \in DOMAIN printJobs :
                      b # JobIdOf(reqs'[r])
                        => /\ b \in DOMAIN printJobs'
                           /\ printJobs'[b] = printJobs[b] ]_vars

\* a duplex job has been resumed and completed while the submission of
\* another job, stored as processing, is still waiting for the spooler
C22_Witness ==
    \E a \in DOMAIN printJobs, r \in ReqIds :
        /\ Resumed(a)
        /\ printJobs[a].status = "completed"
        /\ reqs[r].kind = "print"
        /\ reqs[r].pc = "submit"
        /\ reqs[r].jobId # a
        /\ reqs[r].jobId \in DOMAIN printJobs
        /\ printJobs[reqs[r].jobId].status = "processing"

\* the status queries, in the order they were answered
StatusQueries == {r \in ReqIds : reqs[r].kind = "status"}

\* C23: job records are never destroyed: an id recorded in the job table is
\* there in every later state, so once GET /status has found an id it never
\* answers 404 for it again.  GET /status changes nothing; it answers 404
\* exactly for the ids that are not recorded, and otherwise with the record.
C23_RecordsKept ==
    /\ [][ \A j \in DOMAIN printJobs : j \in DOMAIN printJobs' ]_vars
    /\ [][ \A r \in Stepping :
             reqs'[r].kind = "status"
               => /\ r = Len(reqs) + 1
                  /\ UNCHANGED <<printJobs, statusLog, spool, tempDir, timers,
                                 uploads>>
                  /\ reqs'[r].pc = "done"
                  /\ reqs'[r].code =
                         IF reqs'[r].jobIdArg \in DOMAIN printJobs
                         THEN 200 ELSE 404
                  /\ reqs'[r].code = 200
                       => reqs'[r].body = printJobs[reqs'[r].jobIdArg] ]_vars
    /\ [](\A r \in StatusQueries, q \in StatusQueries :
             (r < q /\ reqs[r].jobIdArg = reqs[q].jobIdArg
              /\ reqs[r].code = 200)
               => reqs[q].code = 200)

\* a status query for an id was answered 404 before the id was recorded and
\* a later one, after the job has completed, with its record
C23_Witness ==
    \E r \in StatusQueries, q \in StatusQueries :
        /\ r < q
        /\ reqs[r].jobIdArg = reqs[q].jobIdArg
        /\ reqs[r].code = 404
        /\ reqs[q].code = 200
        /\ reqs[q].body.status = "completed"

\* C27: completed is terminal: once the stored status of a job is
\* completed, no step changes its record: no status query, no further
\* resume of it, overlapping ones included, no submission of another job, no
\* cleanup timer and no sweep.
C27_CompletedTerminal ==
    [][ \A j \in DOMAIN printJobs :
          printJobs[j].status = "completed"
            => /\ j \in DOMAIN printJobs'
               /\ printJobs'[j] = printJobs[j] ]_vars

\* two overlapping resumes of one job have both been answered with success,
\* the second after the first had stored completed
C27_Witness ==
    \E j \in DOMAIN printJobs :
        /\ printJobs[j].status = "completed"
        /\ Cardinality(ResumesDone(j)) >= 2
        /\ statusLog[j] = <<"processing", "awaiting-even-pages", "completed">>

\* the spooler accepted the odd pages of job j before its entry k
OddBefore(j, k) ==
    \E m \in 1..(k - 1) :
        spool[m].jobId = j /\ ~spool[m].even /\ spool[m].doc.op = "odd"

\* the spooler holds a document of job j that is not a duplex pass
OnePass(j) ==
    \E k \in SpoolIds :
        spool[k].jobId = j /\ ~spool[k].even /\ spool[k].doc.op # "odd"

\* C28: odd before even: the spooler receives the even pages of a job id
\* only after it has accepted the odd pages of that job id; a job has
\* been in awaiting-even-pages only if its odd pages were accepted, and no
\* job submitted without duplex has been there.
C28_OddBeforeEven ==
    /\ \A k \in SpoolIds : spool[k].even => OddBefore(spool[k].jobId, k)
    /\ \A j \in DOMAIN printJobs :
           /\ printJobs[j].status = "awaiting-even-pages" => OddAccepted(j)
           /\ OnePass(j) =>
                  \A i \in 1..Len(statusLog[j]) :
                      statusLog[j][i] # "awaiting-even-pages"

\* the spooler holds the odd and then the even pages of one job, and the
\* document of a job submitted without duplex, which is completed
C28_Witness ==
    \E j \in DOMAIN printJobs, b \in DOMAIN printJobs :
        /\ \E k \in SpoolIds : spool[k].even /\ spool[k].jobId = j
        /\ OddAccepted(j)
        /\ OnePass(b)
        /\ statusLog[b] = <<"processing", "completed">>

\* the record of job j waits for the even pages as POST /print stored it
Waiting(jobs, j) ==
    /\ j \in DOMAIN jobs
    /\ jobs[j].status = "awaiting-even-pages"
    /\ jobs[j].currentStep = "even"
    /\ jobs[j].totalPages = <<DocPages>>

\* C29: when the even-page extraction or the spooler submission of a resume
\* fails, the step that answers it leaves the job table and the spooler's
\* queue as they were; as long as no resume of the job has succeeded, its
\* record is still awaiting-even-pages with currentStep even and its
\* totalPages, so a later resume of the same job id is accepted.
C29_FailedResumeKeepsJob ==
    /\ [][ \A r \in Stepping :
             (/\ reqs'[r].kind = "even"
              /\ reqs'[r].code = 500)
               => /\ reqs[r].pc \in {"extract", "submit"}
                  /\ UNCHANGED <<printJobs, statusLog, spool>> ]_vars
    /\ [](\A r \in ReqIds :
             (/\ reqs[r].kind = "even"
              /\ reqs[r].code = 500
              /\ ResumesDone(reqs[r].jobIdArg) = {})
               => /\ Waiting(printJobs, reqs[r].jobIdArg)
                  /\ ResumeAllowed(printJobs, reqs[r].jobIdArg))

\* a resume of a job has failed and a resume of the same job that arrived
\* after it has completed the job
C29_Witness ==
    \E r \in ReqIds, q \in ReqIds :
        /\ r < q
        /\ reqs[r].kind = "even" /\ reqs[q].kind = "even"
        /\ reqs[r].jobIdArg = reqs[q].jobIdArg
        /\ reqs[r].code = 500
        /\ reqs[q].code = 200
        /\ printJobs[reqs[q].jobIdArg].status = "completed"
        /\ Cardinality(EvenPasses(reqs[q].jobIdArg)) = 1

(***************************************************************************)
(* Rejected requests, checked under Spec.                                  *)
(***************************************************************************)
\* request r has been turned away for its input or for an absent file
Rejected(r) == reqs[r].pc = "done" /\ reqs[r].code \in {400, 404}

\* request r has left nothing behind: no job record of its own, no artifact
\* and nothing in the spooler's queue
NothingFrom(r) ==
    /\ reqs[r].artifact = NoPath
    /\ \A k \in SpoolIds : spool[k].req # r
    /\ reqs[r].kind = "print"
         => reqs[r].jobId = 0 /\ NewJobId(r) \notin DOMAIN printJobs

\* C24: a POST /print without filename or settings is answered 400 and one
\* for an absent file 404, and a POST /print-even without jobId or filename
\* 400 and one for an absent file 404; such a request creates no job record,
\* generates no artifact and submits nothing to the spooler, and the step
\* that rejects it leaves the job table as it was, so the job a rejected
\* resume names stays in awaiting-even-pages.
C24_RejectedCreatesNothing ==
    /\ [](\A r \in ReqIds :
             (reqs[r].pc = "exists" \/ Rejected(r)) => NothingFrom(r))
    /\ [][ \A r \in Stepping :
             /\ r > Len(reqs)
                  => /\ \/ reqs'[r].pc = "exists"
                        \/ reqs'[r].pc = "done" /\ reqs'[r].code = 400
                     /\ reqs'[r].pc = "exists"
                          => /\ reqs'[r].filename # ""
                             /\ reqs'[r].kind = "print" => reqs'[r].hasSettings
                             /\ reqs'[r].kind = "even" => reqs'[r].jobIdArg # 0
             /\ (r <= Len(reqs) /\ reqs[r].pc = "exists")
                  => (reqs'[r].code = 404 <=> reqs[r].filename \notin uploads)
             /\ (reqs'[r].pc = "done" /\ reqs'[r].code \in {400, 404})
                  => /\ r <= Len(reqs) => reqs[r].pc = "exists"
                     /\ UNCHANGED <<printJobs, statusLog, spool, tempDir,
                                    timers, handed>> ]_vars

\* a resume of a waiting job was turned away for an absent file and the job
\* still waits for its even pages
C24_Witness ==
    \E r \in ReqIds :
        /\ reqs[r].kind = "even"
        /\ reqs[r].code = 404
        /\ MapGet(printJobs, reqs[r].jobIdArg).status = "awaiting-even-pages"
        /\ \A k \in SpoolIds : spool[k].req # r

\* C30: a generated artifact is still there when printFile reads it:
\* between the step in which the composer saved it and the read, no cleanup
\* timer of any request and no sweep has deleted it.
C30_ArtifactThere ==
    \A r \in ReqIds :
        (reqs[r].pc = "submit" /\ reqs[r].artifact.dir = "temp")
          => FileExists(reqs[r].artifact)

(***************************************************************************)
(* The copies value, checked under SpecSweep, whose requests carry every   *)
(* kind of copies value.                                                   *)
(***************************************************************************)
\* C25: the copies value handed to the spooler is always a positive
\* integer, on POST /print and on POST /print-even, whatever the request
\* carries.
C25_CopiesPositive ==
    \A k \in SpoolIds : spool[k].copies >= 1

(***************************************************************************)
(* The two passes of a duplex job, checked under SpecCompose.              *)
(***************************************************************************)
OtherType(pageType) == IF pageType = "odd" THEN "even" ELSE "odd"

\* C26: for every page count and every range expression, or none, the odd
\* selection and the even selection over the same range have no page in
\* common, hold no page twice, and together are exactly the base page set:
\* two passes over the same range print every selected page exactly once.
C26_OddEvenPartition ==
    (Returned /\ call.fn = "extractOddEvenPages") =>
        LET total == Len(call.src)
            mine == result[1].pages
            other == extractOddEvenPages(OtherType(call.pageType),
                                         call.pageRange, total)
        IN  /\ SeqRange(mine) \cap SeqRange(other) = {}
            /\ SeqRange(mine) \cup SeqRange(other) =
                   BasePages(call.pageRange, total)
            /\ Len(mine) = Cardinality(SeqRange(mine))
            /\ Len(other) = Cardinality(SeqRange(other))

\* the even pages of "2-6" have been selected from the ten-page document;
\* the odd pass over the same range takes the other pages of 2..6
C26_Witness ==
    /\ Returned
    /\ call.fn = "extractOddEvenPages"
    /\ call.pageType = "even"
    /\ call.pageRange = RangeOf(<<"2", "-", "6">>)
    /\ Len(call.src) = 10
    /\ result[1].pages = <<2, 4, 6>>
    /\ extractOddEvenPages("odd", call.pageRange, 10) = <<3, 5>>

(***************************************************************************)
(* Empty selections and the source of the two passes, checked under        *)
(* SpecSelect.                                                             *)
(***************************************************************************)
\* the pages of the document a request asks for: the pages its range stands
\* for, and of these the odd or the even ones when it is a pass of a duplex
\* job
Wanted(op, pageRange, filename) ==
    {i \in BasePages(pageRange, getPageCount(filename)) :
        op \in {"odd", "even"} => i % 2 = Parity(op)}

\* the request asks for a transformation and no page of the document is in
\* its selection
EmptySelection(op, pageRange, filename) ==
    op # "none" /\ Wanted(op, pageRange, filename) = {}

\* the status a job is left in when the spooler has accepted a pass: it
\* depends on the route and on the duplex setting, not on the selection
AcceptedStatus(req) ==
    IF req.kind = "print" /\ req.duplex THEN "awaiting-even-pages"
    ELSE "completed"

\* C31: an empty page selection is not an error.  When no page is selected
\* (the even pass of a one-page document, an odd pass over a range of even
\* pages only, a range that matches no page) the PDFProcessor call still
\* writes a document, of zero pages; the handler calls printFile with it;
\* and when the spooler accepts, the spooler holds the zero-page document
\* and the job goes where the job of any other selection goes: to
\* awaiting-even-pages for a duplex POST /print, else to completed, with
\* the answer 200.
C31_EmptySelectionPrinted ==
    [][ \A r \in ReqIds :
          LET req == reqs[r]
          IN  /\ (/\ req.pc = "extract" /\ reqs'[r] # req
                  /\ Loadable(req.filename)
                  /\ EmptySelection(req.op, req.pageRange, req.filename))
                   => /\ reqs'[r].pc = "submit"
                      /\ reqs'[r].artifact \in DOMAIN tempDir'
                      /\ tempDir'[reqs'[r].artifact].pages = <<>>
              /\ (req.pc = "submit" /\ reqs'[r] # req)
                   => /\ req.artifact \in handed'
                      /\ spool' # spool
                           => /\ Len(spool') = Len(spool) + 1
                              /\ spool'[Len(spool')].req = r
                              /\ EmptySelection(req.op, req.processed.range,
                                                req.filename)
                                   => spool'[Len(spool')].doc.pages = <<>>
                              /\ IF AcceptedStatus(req) = "completed"
                                 THEN /\ reqs'[r].code = 200
                                      /\ reqs'[r].body.status = "completed"
                                      /\ printJobs'[JobIdOf(req)].status
                                             = "completed"
                                 ELSE reqs'[r].pc = "count"
              /\ (req.pc = "count" /\ reqs'[r] # req)
                   => /\ reqs'[r].code = 200
                      /\ reqs'[r].body.status = AcceptedStatus(req)
                      /\ printJobs'[req.jobId].status = AcceptedStatus(req)
      ]_vars

\* the even pass of the one-page document has gone to the spooler as a
\* document of zero pages, after the odd pass with its one page, and the
\* job is completed
C31_Witness ==
    \E o, e \in SpoolIds, r \in ReqIds :
        /\ o < e
        /\ ~spool[o].even /\ spool[o].file = "note"
        /\ spool[o].doc.pages = <<1>>
        /\ spool[e].even /\ spool[e].file = "note"
        /\ spool[e].jobId = spool[o].jobId
        /\ spool[e].doc.op = "even" /\ spool[e].doc.pages = <<>>
        /\ spool[e].req = r
        /\ reqs[r].code = 200 /\ reqs[r].body.status = "completed"
        /\ printJobs[spool[e].jobId].status = "completed"

\* C32: the two passes of a duplex job come from one source: whenever the
\* spooler holds the odd pages POST /print submitted for a job id and even
\* pages a resume submitted for that job id, both documents were made from
\* the same uploaded file.
C32_SameSource ==
    \A o, e \in SpoolIds :
        (/\ ~spool[o].even /\ spool[o].doc.op = "odd"
         /\ spool[e].even /\ spool[e].jobId = spool[o].jobId)
          => /\ spool[e].file = spool[o].file
             /\ spool[e].path.name = spool[o].path.name

====
